---------------------------- MODULE Spec2Model ----------------------------
(***************************************************************************)
(* A model of the OpenEXR-style header reader of aces-dev                  *)
(* (src/apps/acesinfo/main.c, src/libs/aces/aces.h).                       *)
(*                                                                         *)
(* The reader is single threaded.  Its state is one file handle (the       *)
(* header structure, the private I/O fields), the heap blocks it owns, the *)
(* error callback's log and the stream it reads.  The stream is produced   *)
(* lazily: each parse step draws the next chunk of bytes of the file from  *)
(* a bounded family (a well-formed header with a bounded number of         *)
(* deviations), and the reader functions parse that chunk byte by byte.    *)
(* Strings are sequences of character codes, memory is little-endian.      *)
(***************************************************************************)
EXTENDS Integers, Sequences, FiniteSets, TLC

(***************************************************************************)
(* Bounds of the model.                                                    *)
(***************************************************************************)
\* deviations of the input file from the canonical well-formed header
MaxAnomalies == 2
\* length of the enumerated channel lists
MaxChannels == 3
\* pixel-read calls made on one open handle
MaxCalls == 1
\* the last section of the canonical header that other attributes may precede
ExtraBefore == 2
\* close( fd ) calls of one run
MaxCloses == 2
MaxIndex == 1

(***************************************************************************)
(* Program constants.                                                      *)
(***************************************************************************)
EXR_MAGIC == 20000630
VERSION_SCANLINE == 2
VERSION_TILED == 514
NAME_BUF == 32

ACES_STORAGE_SCANLINE == 0
ACES_STORAGE_TILED == 1

ACES_COMPRESSION_NONE == 0
ACES_COMPRESSION_RLE == 1
ACES_COMPRESSION_ZIPS == 2
ACES_COMPRESSION_ZIP == 3
ACES_COMPRESSION_PIZ == 4
ACES_COMPRESSION_PXR24 == 5
ACES_COMPRESSION_B44 == 6
ACES_COMPRESSION_B44A == 7

ACES_LINEORDER_INCREASING_Y == 0
ACES_LINEORDER_DECREASING_Y == 1
ACES_LINEORDER_RANDOM_Y == 2

ACES_TILE_ONE_LEVEL == 0

ACES_PIXEL_UINT == 0
ACES_PIXEL_HALF == 1
ACES_PIXEL_FLOAT == 2

REQ_CHANNELS_MASK == 1
REQ_COMP_MASK == 2
REQ_DATA_MASK == 4
REQ_DISP_MASK == 8
REQ_LO_MASK == 16
REQ_PAR_MASK == 32
REQ_SCR_WC_MASK == 64
REQ_SCR_WW_MASK == 128
REQ_TILES_MASK == 256

NULL == 0

ACES_ATTR_UNKNOWN == 0
ACES_ATTR_BOX2I == 1
ACES_ATTR_BOX2F == 2
ACES_ATTR_CHLIST == 3
ACES_ATTR_CHROMATICITIES == 4
ACES_ATTR_COMPRESSION == 5
ACES_ATTR_DOUBLE == 6
ACES_ATTR_ENVMAP == 7
ACES_ATTR_FLOAT == 8
ACES_ATTR_INT == 9
ACES_ATTR_KEYCODE == 10
ACES_ATTR_LINEORDER == 11
ACES_ATTR_M33F == 12
ACES_ATTR_M44F == 13
ACES_ATTR_PREVIEW == 14
ACES_ATTR_RATIONAL == 15
ACES_ATTR_STRING == 16
ACES_ATTR_STRING_VECTOR == 17
ACES_ATTR_TILEDESC == 18
ACES_ATTR_TIMECODE == 19
ACES_ATTR_V2I == 20
ACES_ATTR_V2F == 21
ACES_ATTR_V3I == 22
ACES_ATTR_V3F == 23
ACES_ATTR_USER == 24

(* the_predefined_attr_typenames: the table of known type names, each a
   sequence of character codes, in table order *)
the_predefined_attr_typenames ==
    <<
       <<98, 111, 120, 50, 105>>,  \* "box2i"
       <<98, 111, 120, 50, 102>>,  \* "box2f"
       <<99, 104, 108, 105, 115, 116>>,  \* "chlist"
       <<99, 104, 114, 111, 109, 97, 116, 105, 99, 105, 116, 105, 101, 115>>,  \* "chromaticities"
       <<99, 111, 109, 112, 114, 101, 115, 115, 105, 111, 110>>,  \* "compression"
       <<100, 111, 117, 98, 108, 101>>,  \* "double"
       <<101, 110, 118, 109, 97, 112>>,  \* "envmap"
       <<102, 108, 111, 97, 116>>,  \* "float"
       <<105, 110, 116>>,  \* "int"
       <<107, 101, 121, 99, 111, 100, 101>>,  \* "keycode"
       <<108, 105, 110, 101, 79, 114, 100, 101, 114>>,  \* "lineOrder"
       <<109, 51, 51, 102>>,  \* "m33f"
       <<109, 52, 52, 102>>,  \* "m44f"
       <<112, 114, 101, 118, 105, 101, 119>>,  \* "preview"
       <<114, 97, 116, 105, 111, 110, 97, 108>>,  \* "rational"
       <<115, 116, 114, 105, 110, 103>>,  \* "string"
       <<115, 116, 114, 105, 110, 103, 118, 101, 99, 116, 111, 114>>,  \* "stringvector"
       <<116, 105, 108, 101, 100, 101, 115, 99>>,  \* "tiledesc"
       <<116, 105, 109, 101, 99, 111, 100, 101>>,  \* "timecode"
       <<118, 50, 105>>,  \* "v2i"
       <<118, 50, 102>>,  \* "v2f"
       <<118, 51, 105>>,  \* "v3i"
       <<118, 51, 102>>  \* "v3f"
    >>

REQ_CHANNELS_STR == <<99, 104, 97, 110, 110, 101, 108, 115>>  \* "channels"
REQ_COMP_STR == <<99, 111, 109, 112, 114, 101, 115, 115, 105, 111, 110>>  \* "compression"
REQ_DATA_STR == <<100, 97, 116, 97, 87, 105, 110, 100, 111, 119>>  \* "dataWindow"
REQ_DISP_STR == <<100, 105, 115, 112, 108, 97, 121, 87, 105, 110, 100, 111, 119>>  \* "displayWindow"
REQ_LO_STR == <<108, 105, 110, 101, 79, 114, 100, 101, 114>>  \* "lineOrder"
REQ_PAR_STR == <<112, 105, 120, 101, 108, 65, 115, 112, 101, 99, 116, 82, 97, 116, 105, 111>>  \* "pixelAspectRatio"
REQ_SCR_WC_STR == <<115, 99, 114, 101, 101, 110, 87, 105, 110, 100, 111, 119, 67, 101, 110, 116, 101, 114>>  \* "screenWindowCenter"
REQ_SCR_WW_STR == <<115, 99, 114, 101, 101, 110, 87, 105, 110, 100, 111, 119, 87, 105, 100, 116, 104>>  \* "screenWindowWidth"
REQ_TILES_STR == <<116, 105, 108, 101, 115>>  \* "tiles"

(***************************************************************************)
(* Integers in memory: 32-bit little-endian words, C integer division.     *)
(***************************************************************************)
Min(a, b) == IF a < b THEN a ELSE b

\* the four bytes of an int32_t as the file and the (little-endian) host hold it
LE32(v) ==
    << v % 256, (v \div 256) % 256, (v \div 65536) % 256, (v \div 16777216) % 256 >>

\* the int32_t held in bytes k..k+3 of b
I32(b, k) ==
    b[k] + 256 * b[k + 1] + 65536 * b[k + 2]
      + 16777216 * (IF b[k + 3] >= 128 THEN b[k + 3] - 256 ELSE b[k + 3])

\* C's a / b for b > 0: the quotient truncates toward zero
CDiv(a, b) == IF a >= 0 THEN a \div b ELSE -((-a) \div b)

\* the single bit `mask` of v (v & mask)
BitAnd(v, mask) == ((v \div mask) % 2) * mask

\* v | bit, for bit a single bit or 0
BitOr(v, bit) == IF bit = 0 \/ BitAnd(v, bit) # 0 THEN v ELSE v + bit

\* strcmp( a, b ) on NUL-free character sequences: <0, 0 or >0
RECURSIVE strcmp(_, _)
strcmp(a, b) ==
    IF a = <<>> /\ b = <<>> THEN 0
    ELSE IF a = <<>> THEN 0 - Head(b)
    ELSE IF b = <<>> THEN Head(a)
    ELSE IF Head(a) # Head(b) THEN Head(a) - Head(b)
    ELSE strcmp(Tail(a), Tail(b))

(***************************************************************************)
(* The heap: a sequence of blocks, a pointer is an index (NULL is 0).      *)
(* The run of one function is threaded through a record m:                 *)
(*   s, o   the bytes the stream still holds and how many were delivered   *)
(*   eof    a read came back short                                         *)
(*   pos    cur_file_pos                                                   *)
(*   errs   the messages handed to the error callback                      *)
(*   heap   the blocks                                                     *)
(*   viol   memory-safety violations committed                             *)
(***************************************************************************)
Block(kind, data) == [kind |-> kind, live |-> TRUE, data |-> data]

\* malloc: a fresh block at the end of the heap
malloc(m, kind, data) == [m EXCEPT !.heap = Append(@, Block(kind, data))]

\* the pointer the last malloc returned
LastPtr(m) == Len(m.heap)

\* malloc( n ) returns NULL for a size no allocator can serve: a negative
\* int32_t converted to size_t; malloc( 0 ) returns a block, as the C
\* libraries of the platforms the program is built for do
MallocFails(n) == n < 0

\* free( p ) for p # NULL
free(m, p) ==
    IF m.heap[p].live
    THEN [m EXCEPT !.heap[p].live = FALSE]
    ELSE [m EXCEPT !.viol = @ \cup {"double_free"}]

Msg(e, t, a) == [e |-> e, t |-> t, a |-> a]

\* print_error: format the message and hand it to the error callback
print_error(m, msg) == [m EXCEPT !.errs = Append(@, msg)]

\* f->readfn( f->user_file, buf, n ): delivers what the stream holds, at most n
readfn(m, n) ==
    LET k == Min(n, Len(m.s) - m.o)
    IN  [n    |-> k,
         data |-> SubSeq(m.s, m.o + 1, m.o + k),
         m    |-> [m EXCEPT !.o = @ + k, !.eof = @ \/ k < n]]

(***************************************************************************)
(* read_string: a NUL-terminated name of at most 31 characters.            *)
(***************************************************************************)
\* after the while loop: pos == 32 is a name without terminator
read_string_end(m, attrname, pos, type) ==
    IF pos = NAME_BUF
    THEN [ret |-> -1, attrname |-> SubSeq(attrname, 1, NAME_BUF - 1),
          term |-> TRUE,
          m |-> print_error(m, Msg("name_too_long", type, SubSeq(attrname, 1, NAME_BUF - 1)))]
    ELSE [ret |-> pos, attrname |-> attrname, term |-> TRUE, m |-> m]

RECURSIVE read_string_loop(_, _, _, _)
read_string_loop(m, attrname, pos, type) ==
    IF pos < NAME_BUF
    THEN LET r  == readfn(m, 1)
             m1 == [r.m EXCEPT !.pos = @ + 1]
         IN  IF r.n # 1
             THEN [ret |-> -1, attrname |-> attrname, term |-> FALSE,
                   m |-> print_error(m1, Msg("name_eof", type, attrname))]
             ELSE IF r.data[1] = 0
                  THEN read_string_end(m1, attrname, pos, type)
                  ELSE read_string_loop(m1, Append(attrname, r.data[1]), pos + 1, type)
    ELSE read_string_end(m, attrname, pos, type)

\* ret: the length, or -1; attrname: the characters stored before the
\* terminator; term: the buffer holds a terminator
read_string(m, type) == read_string_loop(m, <<>>, 0, type)

\* faulty variant of attr_name_to_type: a name the table does not hold is no type
attr_name_to_type_known_only(attrname) ==
    IF attrname = <<>> THEN ACES_ATTR_UNKNOWN
    ELSE IF \E idx \in 0 .. Len(the_predefined_attr_typenames) - 1 :
                strcmp(the_predefined_attr_typenames[idx + 1], attrname) = 0
         THEN (CHOOSE idx \in 0 .. Len(the_predefined_attr_typenames) - 1 :
                  strcmp(the_predefined_attr_typenames[idx + 1], attrname) = 0) + 1
         ELSE ACES_ATTR_UNKNOWN

\* faulty variant of attr_name_to_type: the tags of v2i and v2f are swapped
attr_name_to_type_swapped(attrname) ==
    IF attrname = <<>> THEN ACES_ATTR_UNKNOWN
    ELSE IF \E idx \in 0 .. Len(the_predefined_attr_typenames) - 1 :
                strcmp(the_predefined_attr_typenames[idx + 1], attrname) = 0
         THEN LET t == (CHOOSE idx \in 0 .. Len(the_predefined_attr_typenames) - 1 :
                          strcmp(the_predefined_attr_typenames[idx + 1], attrname) = 0) + 1
              IN  IF t = ACES_ATTR_V2I THEN ACES_ATTR_V2F
                  ELSE IF t = ACES_ATTR_V2F THEN ACES_ATTR_V2I ELSE t
         ELSE ACES_ATTR_USER

\* attr_name_to_type: index in the table plus one, USER when not in the table
attr_name_to_type(attrname) ==
    IF attrname = <<>> THEN ACES_ATTR_UNKNOWN
    ELSE IF \E idx \in 0 .. Len(the_predefined_attr_typenames) - 1 :
                strcmp(the_predefined_attr_typenames[idx + 1], attrname) = 0
         THEN (CHOOSE idx \in 0 .. Len(the_predefined_attr_typenames) - 1 :
                  /\ strcmp(the_predefined_attr_typenames[idx + 1], attrname) = 0
                  /\ \A j \in 0 .. idx - 1 :
                        strcmp(the_predefined_attr_typenames[j + 1], attrname) # 0) + 1
         ELSE ACES_ATTR_USER

(***************************************************************************)
(* Attribute payload readers.                                              *)
(***************************************************************************)
\* faulty variant of attr_check_size_and_read: the declared size is not looked at
attr_check_size_and_read_unchecked(m, given, nativesize, type_name) ==
    LET r == readfn(m, nativesize)
    IN  IF r.n # nativesize
        THEN [ret |-> -1, data |-> r.data,
              m |-> print_error([r.m EXCEPT !.pos = @ + r.n], Msg("attr_eof", "", type_name))]
        ELSE [ret |-> 1, data |-> r.data, m |-> [r.m EXCEPT !.pos = @ + r.n]]

\* attr_check_size_and_read: the declared size must be the native size
attr_check_size_and_read(m, given, nativesize, type_name) ==
    IF given # nativesize
    THEN [ret |-> -1, data |-> <<>>,
          m |-> print_error(m, Msg("size_mismatch", "", type_name))]
    ELSE LET r  == readfn(m, nativesize)
             m1 == [r.m EXCEPT !.pos = @ + r.n]
         IN  IF r.n # nativesize
             THEN [ret |-> -1, data |-> r.data,
                   m |-> print_error(m1, Msg("attr_eof", "", type_name))]
             ELSE [ret |-> 1, data |-> r.data, m |-> m1]

\* the value part of an aces_attribute after memset( attr, 0, ... ):
\*   raw       bytes stored at the start of the union by a fixed-size read
\*   n, n2     the integer members of a variable-length value
\*             (num_channels | length | size | width, and height)
\*   ptr       its pointer member (entries | str | data | rgba)
ZeroAttr ==
    [type |-> ACES_ATTR_UNKNOWN, type_name |-> NULL,
     raw |-> <<>>, n |-> 0, n2 |-> 0, ptr |-> NULL]

\* faulty variant of attr_read_string: a length word is read before the string
\* and counted in the declared size
attr_read_string_prefixed(m, size, attr) ==
    LET r  == readfn(m, 4)
        r2 == readfn(r.m, size - 4)
        m1 == malloc([r2.m EXCEPT !.pos = @ + r.n + r2.n], "string", r2.data)
    IN  IF size <= 4 \/ r.n # 4 \/ r2.n # size - 4
        THEN [ret |-> -1, attr |-> attr, m |-> r2.m]
        ELSE [ret |-> 1, attr |-> [attr EXCEPT !.n = size - 4, !.ptr = LastPtr(m1)],
              m |-> m1]

\* attr_read_string: the declared size is the string length
attr_read_string(m, size, attr) ==
    LET ssize == size
        a1    == [attr EXCEPT !.n = ssize]
    IN  IF MallocFails(ssize)
        THEN [ret |-> -1, attr |-> a1,
              m |-> print_error(m, Msg("string_alloc", "", <<>>))]
        ELSE LET r      == readfn(m, ssize)
                 m1     == malloc(r.m, "string", r.data)
                 outstr == LastPtr(m1)
                 m2     == [m1 EXCEPT !.pos = @ + r.n]
             IN  IF r.n # ssize
                 THEN [ret |-> -1, attr |-> [a1 EXCEPT !.ptr = NULL],
                       m |-> free(print_error(m2, Msg("string_eof", "", <<>>)), outstr)]
                 ELSE [ret |-> 1, attr |-> [a1 EXCEPT !.ptr = outstr], m |-> m2]

\* attr_read_userdata: opaque bytes of the declared size
attr_read_userdata(m, size, attr) ==
    LET a1 == [attr EXCEPT !.n = size]
    IN  IF MallocFails(size)
        THEN [ret |-> -1, attr |-> a1,
              m |-> print_error(m, Msg("userdata_alloc", "", <<>>))]
        ELSE LET r       == readfn(m, size)
                 m1      == malloc(r.m, "userdata", r.data)
                 dstdata == LastPtr(m1)
                 m2      == [m1 EXCEPT !.pos = @ + r.n]
             IN  IF r.n # size
                 THEN [ret |-> -1, attr |-> [a1 EXCEPT !.ptr = NULL],
                       m |-> free(print_error(m2, Msg("userdata_eof", "", <<>>)), dstdata)]
                 ELSE [ret |-> 1, attr |-> [a1 EXCEPT !.ptr = dstdata], m |-> m2]

\* attr_read_preview: width, height, then 4 * width * height bytes
attr_read_preview(m, size, attr) ==
    IF size <= 4
    THEN [ret |-> -1, attr |-> attr,
          m |-> print_error(m, Msg("preview_size", "", <<>>))]
    ELSE LET r  == readfn(m, 8)
             m1 == [r.m EXCEPT !.pos = @ + r.n]
         IN  IF r.n # 8
             THEN [ret |-> -1, attr |-> attr,
                   m |-> print_error(m1, Msg("preview_dims_eof", "", <<>>))]
             ELSE LET w       == I32(r.data, 1)
                      h       == I32(r.data, 5)
                      nToR    == 4 * w * h
                      a1      == [attr EXCEPT !.n = w, !.n2 = h]
                      r2      == readfn(m1, nToR)
                      m2      == malloc(r2.m, "preview", r2.data)
                      rgbaptr == LastPtr(m2)
                      m3      == [m2 EXCEPT !.pos = @ + r2.n]
                  IN  IF r2.n # nToR
                      THEN [ret |-> -1, attr |-> [a1 EXCEPT !.ptr = NULL],
                            m |-> free(print_error(m3, Msg("preview_eof", "", <<>>)), rgbaptr)]
                      ELSE [ret |-> 1, attr |-> [a1 EXCEPT !.ptr = rgbaptr], m |-> m3]

\* one aces_attr_chlist_entry
ChEntry(name, pixel_type, p_linear, reserved, x_sampling, y_sampling) ==
    [name |-> name, pixel_type |-> pixel_type, p_linear |-> p_linear,
     reserved |-> reserved, x_sampling |-> x_sampling, y_sampling |-> y_sampling]

\* the sizes of the five fields that follow a channel name, in reading order
ChFieldSizes == <<4, 1, 3, 4, 4>>
ChFieldNames == <<"channel pixel type", "channel linear flag", "channel padding",
                  "channel x sampling", "channel y sampling">>

\* the fields of one channel, each through attr_check_size_and_read; the
\* first failure ends the reading
RECURSIVE chlist_fields(_, _, _)
chlist_fields(m, k, vals) ==
    IF k > Len(ChFieldSizes) THEN [ok |-> TRUE, vals |-> vals, m |-> m]
    ELSE LET c == attr_check_size_and_read(m, ChFieldSizes[k], ChFieldSizes[k], <<>>)
         IN  IF c.ret < 0 THEN [ok |-> FALSE, vals |-> vals, m |-> c.m]
             ELSE chlist_fields(c.m, k + 1, Append(vals, c.data))

\* faulty variant of chlist_walk: the walk also stops at a node of the same name
RECURSIVE chlist_walk_equal(_, _, _)
chlist_walk_equal(channel_list, name, cur) ==
    IF cur > Len(channel_list) THEN cur
    ELSE IF strcmp(name, channel_list[cur].c.name) <= 0 THEN cur
    ELSE chlist_walk_equal(channel_list, name, cur + 1)

\* the walk of the sorted insert: the first node whose name is greater than
\* the new name, or one past the end
RECURSIVE chlist_walk(_, _, _)
chlist_walk(channel_list, name, cur) ==
    IF cur > Len(channel_list) THEN cur
    ELSE IF strcmp(name, channel_list[cur].c.name) < 0 THEN cur
    ELSE chlist_walk(channel_list, name, cur + 1)

\* link new_chan in before the node the walk stopped at
chlist_insert(channel_list, new_chan) ==
    LET cur == chlist_walk(channel_list, new_chan.c.name, 1)
    IN  SubSeq(channel_list, 1, cur - 1) \o <<new_chan>>
          \o SubSeq(channel_list, cur, Len(channel_list))

\* the body of the while loop once the five fields were read (fr): a failed
\* field frees the node and ends the reading, else the node is linked in
chlist_loop_fields(rs, new_chan, channel_list, num_channels, fr) ==
    IF ~fr.ok
    THEN [ret |-> -1, list |-> channel_list, num |-> 0, m |-> free(fr.m, new_chan)]
    ELSE [ret |-> 2, m |-> fr.m, num |-> num_channels + 1,
          list |-> chlist_insert(channel_list,
                     [p |-> new_chan,
                      c |-> ChEntry(rs.attrname, I32(fr.vals[1], 1), fr.vals[2][1],
                                    fr.vals[3], I32(fr.vals[4], 1), I32(fr.vals[5], 1))])]

\* malloc of the node and strcpy of the name; read_string may have left the
\* buffer without terminator
chlist_new_chan(rs) ==
    IF rs.term THEN malloc(rs.m, "tmp_ch_list", <<>>)
    ELSE [malloc(rs.m, "tmp_ch_list", <<>>) EXCEPT !.viol = @ \cup {"strcpy_unterminated"}]

\* one turn of while ( read_string( f, chstr, "channel" ) ) { ... } after
\* read_string returned rs: any non-zero result, -1 included, enters the
\* body; ret 2 asks for another turn
chlist_turn(rs, channel_list, num_channels) ==
    IF rs.ret = 0
    THEN [ret |-> 1, list |-> channel_list, num |-> num_channels, m |-> rs.m]
    ELSE chlist_loop_fields(rs, Len(rs.m.heap) + 1, channel_list, num_channels,
                            chlist_fields(chlist_new_chan(rs), 1, <<>>))

RECURSIVE chlist_loop(_)
chlist_loop(t) ==
    IF t.ret # 2 THEN t
    ELSE chlist_loop(chlist_turn(read_string(t.m, "channel"), t.list, t.num))

\* free the temporary list, front to back
RECURSIVE chlist_free_tmp(_, _)
chlist_free_tmp(m, channel_list) ==
    IF channel_list = <<>> THEN m
    ELSE chlist_free_tmp(free(m, Head(channel_list).p), Tail(channel_list))

\* attr_read_chlist after the loop left L: the entries array holds the
\* temporary list, in list order; the list is freed
attr_read_chlist_entries(L, attr) ==
    IF L.num > 0
    THEN [ret |-> L.ret,
          attr |-> [attr EXCEPT !.n = L.num, !.ptr = Len(L.m.heap) + 1],
          m |-> chlist_free_tmp(
                  malloc(L.m, "entries", [i \in 1 .. L.num |-> L.list[i].c]), L.list)]
    ELSE [ret |-> L.ret,
          attr |-> [attr EXCEPT !.n = L.num, !.ptr = NULL],
          m |-> chlist_free_tmp(L.m, L.list)]

attr_read_chlist(m, size, attr) ==
    attr_read_chlist_entries(
        chlist_loop([ret |-> 2, list |-> <<>>, num |-> 0, m |-> m]), attr)

(***************************************************************************)
(* read_attribute: name, type name, declared size, payload.                *)
(***************************************************************************)
\* the types read through attr_check_size_and_read
FixedTypes ==
    {ACES_ATTR_BOX2I, ACES_ATTR_BOX2F, ACES_ATTR_CHROMATICITIES, ACES_ATTR_COMPRESSION,
     ACES_ATTR_DOUBLE, ACES_ATTR_ENVMAP, ACES_ATTR_FLOAT, ACES_ATTR_INT,
     ACES_ATTR_KEYCODE, ACES_ATTR_LINEORDER, ACES_ATTR_M33F, ACES_ATTR_M44F,
     ACES_ATTR_RATIONAL, ACES_ATTR_TILEDESC, ACES_ATTR_TIMECODE, ACES_ATTR_V2I,
     ACES_ATTR_V2F, ACES_ATTR_V3I, ACES_ATTR_V3F}

\* sizeof of the member each fixed-size case of the switch reads
NativeSize(type) ==
    CASE type = ACES_ATTR_BOX2I          -> 16
      [] type = ACES_ATTR_BOX2F          -> 16
      [] type = ACES_ATTR_CHROMATICITIES -> 32
      [] type = ACES_ATTR_COMPRESSION    -> 1
      [] type = ACES_ATTR_DOUBLE         -> 8
      [] type = ACES_ATTR_ENVMAP         -> 1
      [] type = ACES_ATTR_FLOAT          -> 4
      [] type = ACES_ATTR_INT            -> 4
      [] type = ACES_ATTR_KEYCODE        -> 28
      [] type = ACES_ATTR_LINEORDER      -> 1
      [] type = ACES_ATTR_M33F           -> 36
      [] type = ACES_ATTR_M44F           -> 64
      [] type = ACES_ATTR_RATIONAL       -> 8
      [] type = ACES_ATTR_TILEDESC       -> 16
      [] type = ACES_ATTR_TIMECODE       -> 8
      [] type = ACES_ATTR_V2I            -> 8
      [] type = ACES_ATTR_V2F            -> 8
      [] type = ACES_ATTR_V3I            -> 12
      [] type = ACES_ATTR_V3F            -> 12

\* what read_attribute hands back: its result, the two names and the size it
\* read, the offset at which the payload starts, the attribute, the run
RA(ret, attrname, type_name, asize, o_payload, attr, m) ==
    [ret |-> ret, attrname |-> attrname, type_name |-> type_name, asize |-> asize,
     o_payload |-> o_payload, attr |-> attr, m |-> m]

\* read_attribute's return after a payload reader returned c
RAof(c, attrname, type_name, asize, o_payload) ==
    RA(c.ret, attrname, type_name, asize, o_payload, c.attr, c.m)

\* a fixed-size read stores into the union of the attribute
attr_store(c, attr) == [ret |-> c.ret, attr |-> [attr EXCEPT !.raw = c.data], m |-> c.m]

\* the USER case: strdup of the type name, then the opaque payload
read_attribute_user(m1, asize, attr) ==
    attr_read_userdata(m1, asize, [attr EXCEPT !.type_name = LastPtr(m1)])

\* the switch on attr->type
read_attribute_switch(m, attrname, type_name, asize, attr) ==
    IF attr.type \in FixedTypes
    THEN RAof(attr_store(attr_check_size_and_read(m, asize, NativeSize(attr.type),
                                                  type_name), attr),
              attrname, type_name, asize, m.o)
    ELSE IF attr.type = ACES_ATTR_STRING
    THEN RAof(attr_read_string(m, asize, attr), attrname, type_name, asize, m.o)
    ELSE IF attr.type = ACES_ATTR_PREVIEW
    THEN RAof(attr_read_preview(m, asize, attr), attrname, type_name, asize, m.o)
    ELSE IF attr.type = ACES_ATTR_CHLIST
    THEN RAof(attr_read_chlist(m, asize, attr), attrname, type_name, asize, m.o)
    ELSE IF attr.type = ACES_ATTR_USER
    THEN RAof(read_attribute_user(malloc(m, "type_name", type_name), asize, attr),
              attrname, type_name, asize, m.o)
    ELSE RA(-1, attrname, type_name, asize, m.o, attr,
            print_error(m, Msg("unknown_type", "", type_name)))

\* read_attribute once the size word was read (r)
read_attribute_size(attrname, type_name, r) ==
    IF r.n # 4
    THEN RA(-1, attrname, type_name, 0, r.m.o, ZeroAttr,
            print_error([r.m EXCEPT !.pos = @ + r.n], Msg("size_eof", "", attrname)))
    ELSE read_attribute_switch([r.m EXCEPT !.pos = @ + r.n], attrname, type_name,
                               I32(r.data, 1),
                               [ZeroAttr EXCEPT !.type = attr_name_to_type(type_name)])

\* read_attribute once the type name was read (rt)
read_attribute_type(attrname, rt) ==
    IF rt.ret < 0
    THEN RA(-1, attrname, rt.attrname, 0, rt.m.o, ZeroAttr, rt.m)
    ELSE read_attribute_size(attrname, rt.attrname, readfn(rt.m, 4))

\* faulty variant of read_attribute_name: the empty name is taken as a failure
read_attribute_name_strict(rs) ==
    IF rs.ret <= 0
    THEN RA(-1, rs.attrname, <<>>, 0, rs.m.o, ZeroAttr, rs.m)
    ELSE read_attribute_type(rs.attrname, read_string(rs.m, "type"))

\* read_attribute once the attribute name was read (rs)
read_attribute_name(rs) ==
    IF rs.ret <= 0
    THEN RA(rs.ret, rs.attrname, <<>>, 0, rs.m.o, ZeroAttr, rs.m)
    ELSE read_attribute_type(rs.attrname, read_string(rs.m, "type"))

read_attribute(m) == read_attribute_name(read_string(m, "attribute"))
(***************************************************************************)
(* The anonymous union of aces_attribute, read through another member.     *)
(***************************************************************************)
VarTypes == {ACES_ATTR_CHLIST, ACES_ATTR_PREVIEW, ACES_ATTR_STRING, ACES_ATTR_USER}

\* the first bytes of the union: what a fixed-size read stored, or the
\* integer members and the pointer of a variable-length value (int at 0,
\* second int or padding at 4, pointer at 8; a pointer's value is its index)
UnionBytes(attr) ==
    IF attr.type \in VarTypes
    THEN LE32(attr.n) \o LE32(attr.n2) \o LE32(attr.ptr) \o <<0, 0, 0, 0>>
    ELSE attr.raw

\* byte i of the union; memset left zero whatever was not written
UnionByte(attr, i) ==
    IF i <= Len(UnionBytes(attr)) THEN UnionBytes(attr)[i] ELSE 0

UnionSlice(attr, k, n) == [i \in 1 .. n |-> UnionByte(attr, k + i - 1)]

\* attr->uc, attr->f, attr->v2f, attr->box2i, attr->tiledesc, attr->chlist
attr_uc(attr) == UnionByte(attr, 1)
attr_f(attr) == UnionSlice(attr, 1, 4)
attr_v2f(attr) == UnionSlice(attr, 1, 8)
attr_box2i(attr) ==
    [x_min |-> I32(UnionSlice(attr, 1, 4), 1), y_min |-> I32(UnionSlice(attr, 5, 4), 1),
     x_max |-> I32(UnionSlice(attr, 9, 4), 1), y_max |-> I32(UnionSlice(attr, 13, 4), 1)]
attr_tiledesc(attr) ==
    [x_size |-> I32(UnionSlice(attr, 1, 4), 1), y_size |-> I32(UnionSlice(attr, 5, 4), 1),
     level_type |-> I32(UnionSlice(attr, 9, 4), 1),
     round_mode |-> I32(UnionSlice(attr, 13, 4), 1)]
attr_chlist(attr) ==
    [num_channels |-> I32(UnionSlice(attr, 1, 4), 1),
     entries |-> I32(UnionSlice(attr, 9, 4), 1)]

(***************************************************************************)
(* The header (ACES_PRIVATE_FILE) and add_attribute.                       *)
(***************************************************************************)
\* the header as alloc_file_data_struct's memset leaves it
ZeroHeader ==
    [storage_mode |-> 0,
     channels |-> [num_channels |-> 0, entries |-> NULL],
     compression |-> 0,
     data_window |-> [x_min |-> 0, y_min |-> 0, x_max |-> 0, y_max |-> 0],
     display_window |-> [x_min |-> 0, y_min |-> 0, x_max |-> 0, y_max |-> 0],
     line_order |-> 0,
     pixel_aspect_ratio |-> <<0, 0, 0, 0>>,
     screen_window_center |-> <<0, 0, 0, 0, 0, 0, 0, 0>>,
     screen_window_width |-> <<0, 0, 0, 0>>,
     tile_info |-> [x_size |-> 0, y_size |-> 0, level_type |-> 0, round_mode |-> 0],
     user_attributes |-> <<>>]

\* faulty variant of add_user_attribute: the new node is put at the head of the list
add_user_attribute_at_head(f, m, attrname, attr) ==
    LET m1 == malloc(m, "user_attr", attrname)
    IN  [mask |-> 0,
         f |-> [f EXCEPT !.user_attributes =
                   <<[node |-> LastPtr(m1), name |-> attrname, data |-> attr]>> \o @],
         m |-> m1]

\* the tail of add_attribute: a new node at the end of the user-attribute list
add_user_attribute(f, m, attrname, attr) ==
    LET m1 == malloc(m, "user_attr", attrname)
    IN  [mask |-> 0,
         f |-> [f EXCEPT !.user_attributes =
                   Append(@, [node |-> LastPtr(m1), name |-> attrname, data |-> attr])],
         m |-> m1]

\* faulty variant of add_attribute: tiles is kept in the header whatever the
\* storage mode is
add_attribute_tiles_always(f, m, attrname, attr) ==
    IF strcmp(attrname, REQ_CHANNELS_STR) = 0
    THEN [mask |-> REQ_CHANNELS_MASK, f |-> [f EXCEPT !.channels = attr_chlist(attr)], m |-> m]
    ELSE IF strcmp(attrname, REQ_COMP_STR) = 0
    THEN [mask |-> REQ_COMP_MASK, f |-> [f EXCEPT !.compression = attr_uc(attr)], m |-> m]
    ELSE IF strcmp(attrname, REQ_DATA_STR) = 0
    THEN [mask |-> REQ_DATA_MASK, f |-> [f EXCEPT !.data_window = attr_box2i(attr)], m |-> m]
    ELSE IF strcmp(attrname, REQ_DISP_STR) = 0
    THEN [mask |-> REQ_DISP_MASK, f |-> [f EXCEPT !.display_window = attr_box2i(attr)], m |-> m]
    ELSE IF strcmp(attrname, REQ_LO_STR) = 0
    THEN [mask |-> REQ_LO_MASK, f |-> [f EXCEPT !.line_order = attr_uc(attr)], m |-> m]
    ELSE IF strcmp(attrname, REQ_PAR_STR) = 0
    THEN [mask |-> REQ_PAR_MASK, f |-> [f EXCEPT !.pixel_aspect_ratio = attr_f(attr)], m |-> m]
    ELSE IF strcmp(attrname, REQ_SCR_WC_STR) = 0
    THEN [mask |-> REQ_SCR_WC_MASK,
          f |-> [f EXCEPT !.screen_window_center = attr_v2f(attr)], m |-> m]
    ELSE IF strcmp(attrname, REQ_SCR_WW_STR) = 0
    THEN [mask |-> REQ_SCR_WW_MASK,
          f |-> [f EXCEPT !.screen_window_width = attr_f(attr)], m |-> m]
    ELSE IF strcmp(attrname, REQ_TILES_STR) = 0
    THEN [mask |-> REQ_TILES_MASK, f |-> [f EXCEPT !.tile_info = attr_tiledesc(attr)], m |-> m]
    ELSE add_user_attribute(f, m, attrname, attr)

\* add_attribute: the nine required names go to the header, the rest to the
\* user-attribute list; returns the bit for the required mask
add_attribute(f, m, attrname, attr) ==
    IF strcmp(attrname, REQ_CHANNELS_STR) = 0
    THEN [mask |-> REQ_CHANNELS_MASK, f |-> [f EXCEPT !.channels = attr_chlist(attr)], m |-> m]
    ELSE IF strcmp(attrname, REQ_COMP_STR) = 0
    THEN [mask |-> REQ_COMP_MASK, f |-> [f EXCEPT !.compression = attr_uc(attr)], m |-> m]
    ELSE IF strcmp(attrname, REQ_DATA_STR) = 0
    THEN [mask |-> REQ_DATA_MASK, f |-> [f EXCEPT !.data_window = attr_box2i(attr)], m |-> m]
    ELSE IF strcmp(attrname, REQ_DISP_STR) = 0
    THEN [mask |-> REQ_DISP_MASK, f |-> [f EXCEPT !.display_window = attr_box2i(attr)], m |-> m]
    ELSE IF strcmp(attrname, REQ_LO_STR) = 0
    THEN [mask |-> REQ_LO_MASK, f |-> [f EXCEPT !.line_order = attr_uc(attr)], m |-> m]
    ELSE IF strcmp(attrname, REQ_PAR_STR) = 0
    THEN [mask |-> REQ_PAR_MASK, f |-> [f EXCEPT !.pixel_aspect_ratio = attr_f(attr)], m |-> m]
    ELSE IF strcmp(attrname, REQ_SCR_WC_STR) = 0
    THEN [mask |-> REQ_SCR_WC_MASK,
          f |-> [f EXCEPT !.screen_window_center = attr_v2f(attr)], m |-> m]
    ELSE IF strcmp(attrname, REQ_SCR_WW_STR) = 0
    THEN [mask |-> REQ_SCR_WW_MASK,
          f |-> [f EXCEPT !.screen_window_width = attr_f(attr)], m |-> m]
    ELSE IF strcmp(attrname, REQ_TILES_STR) = 0 /\ f.storage_mode = ACES_STORAGE_TILED
    THEN [mask |-> REQ_TILES_MASK, f |-> [f EXCEPT !.tile_info = attr_tiledesc(attr)], m |-> m]
    ELSE add_user_attribute(f, m, attrname, attr)

\* faulty variant of check_attr_mask: no bit is ever missing
check_attr_mask_blind(m, v, mask, name) == [n |-> 0, m |-> m]

\* check_attr_mask: 1 and a message when the bit is missing
check_attr_mask(m, v, mask, name) ==
    IF BitAnd(v, mask) = 0
    THEN [n |-> 1, m |-> print_error(m, Msg("missing_required", "", name))]
    ELSE [n |-> 0, m |-> m]

\* faulty variant of RequiredBits: the tiles bit is never asked for
RequiredBits_no_tiles(storage_mode) ==
    << <<REQ_CHANNELS_MASK, REQ_CHANNELS_STR>>, <<REQ_COMP_MASK, REQ_COMP_STR>>,
       <<REQ_DATA_MASK, REQ_DATA_STR>>, <<REQ_DISP_MASK, REQ_DISP_STR>>,
       <<REQ_LO_MASK, REQ_LO_STR>>, <<REQ_PAR_MASK, REQ_PAR_STR>>,
       <<REQ_SCR_WC_MASK, REQ_SCR_WC_STR>>, <<REQ_SCR_WW_MASK, REQ_SCR_WW_STR>> >>

\* the masks report_missing_attributes checks, in its order
RequiredBits(storage_mode) ==
    << <<REQ_CHANNELS_MASK, REQ_CHANNELS_STR>>, <<REQ_COMP_MASK, REQ_COMP_STR>>,
       <<REQ_DATA_MASK, REQ_DATA_STR>>, <<REQ_DISP_MASK, REQ_DISP_STR>>,
       <<REQ_LO_MASK, REQ_LO_STR>>, <<REQ_PAR_MASK, REQ_PAR_STR>>,
       <<REQ_SCR_WC_MASK, REQ_SCR_WC_STR>>, <<REQ_SCR_WW_MASK, REQ_SCR_WW_STR>> >>
    \o (IF storage_mode = ACES_STORAGE_TILED
        THEN << <<REQ_TILES_MASK, REQ_TILES_STR>> >> ELSE <<>>)

RECURSIVE report_missing_loop(_, _, _, _)
report_missing_loop(m, accumAttrsRead, bits, numMissing) ==
    IF bits = <<>> THEN [numMissing |-> numMissing, m |-> m]
    ELSE LET c == check_attr_mask(m, accumAttrsRead, Head(bits)[1], Head(bits)[2])
         IN  report_missing_loop(c.m, accumAttrsRead, Tail(bits), numMissing + c.n)

\* report_missing_attributes: the number of required attributes not seen
report_missing_attributes(f, m, accumAttrsRead) ==
    report_missing_loop(m, accumAttrsRead, RequiredBits(f.storage_mode), 0)

(***************************************************************************)
(* aces_close.                                                             *)
(***************************************************************************)
\* free( p ) of a pointer that may not be a block of the heap
free_ptr(m, p) ==
    IF p \in 1 .. Len(m.heap) THEN free(m, p)
    ELSE [m EXCEPT !.viol = @ \cup {"wild_free"}]

\* release_attribute_memory: the payload of one user attribute, by its type
release_attribute_memory(m, attr) ==
    IF attr.type \in {ACES_ATTR_CHLIST, ACES_ATTR_PREVIEW, ACES_ATTR_STRING}
    THEN IF attr.ptr # NULL THEN free_ptr(m, attr.ptr) ELSE m
    ELSE IF attr.type = ACES_ATTR_USER
    THEN LET m1 == IF attr.type_name # NULL THEN free_ptr(m, attr.type_name) ELSE m
         IN  IF attr.ptr # NULL THEN free_ptr(m1, attr.ptr) ELSE m1
    ELSE m

\* the loop over the user-attribute list: payload, then the node
RECURSIVE close_user_attributes(_, _)
close_user_attributes(m, cur_ua) ==
    IF cur_ua = <<>> THEN m
    ELSE close_user_attributes(
           free_ptr(release_attribute_memory(m, Head(cur_ua).data), Head(cur_ua).node),
           Tail(cur_ua))

\* aces_close( f ) for f # NULL, f the block fileptr holding header pf and
\* descriptor field fd_field; closed is the log of close( fd ) calls
aces_close_live(m, pf, fd_field, fileptr, closed) ==
    LET m1 == IF pf.channels.entries # NULL THEN free_ptr(m, pf.channels.entries) ELSE m
        m2 == close_user_attributes(m1, pf.user_attributes)
    IN  [m |-> free_ptr(m2, fileptr),
         pf |-> [pf EXCEPT !.user_attributes = <<>>],
         closed |-> IF fd_field >= 0 THEN Append(closed, fd_field) ELSE closed]

(***************************************************************************)
(* Reading pixels: the argument check and the block geometry.              *)
(***************************************************************************)
\* faulty variant of read_check_argument: the header is not looked at
read_check_argument_lenient(m, pf, io, dst) ==
    IF ~io.readfn /\ io.writefn
    THEN [ret |-> -1, m |-> print_error(m, Msg("opened_for_write", "", <<>>))]
    ELSE IF dst = NULL
    THEN [ret |-> -1, m |-> print_error(m, Msg("null_destination", "", <<>>))]
    ELSE [ret |-> 0, m |-> m]

\* read_check_argument for f # NULL: 0, or -1 with a message
read_check_argument(m, pf, io, dst) ==
    IF ~io.readfn /\ io.writefn
    THEN [ret |-> -1, m |-> print_error(m, Msg("opened_for_write", "", <<>>))]
    ELSE IF dst = NULL
    THEN [ret |-> -1, m |-> print_error(m, Msg("null_destination", "", <<>>))]
    ELSE IF pf.compression \in {ACES_COMPRESSION_PXR24, ACES_COMPRESSION_B44,
                                ACES_COMPRESSION_B44A}
    THEN [ret |-> -1, m |-> print_error(m, Msg("compression_not_available", "", <<>>))]
    ELSE IF pf.compression \notin {ACES_COMPRESSION_NONE, ACES_COMPRESSION_RLE,
                                   ACES_COMPRESSION_ZIPS, ACES_COMPRESSION_ZIP,
                                   ACES_COMPRESSION_PIZ}
    THEN [ret |-> -1, m |-> print_error(m, Msg("unknown_compression", "", <<>>))]
    ELSE IF pf.storage_mode = ACES_STORAGE_TILED
            /\ pf.tile_info.level_type # ACES_TILE_ONE_LEVEL
    THEN [ret |-> -1, m |-> print_error(m, Msg("multi_level_tiles", "", <<>>))]
    ELSE IF pf.storage_mode # ACES_STORAGE_TILED /\ pf.storage_mode # ACES_STORAGE_SCANLINE
    THEN [ret |-> -1, m |-> print_error(m, Msg("unknown_storage_mode", "", <<>>))]
    ELSE IF pf.line_order = ACES_LINEORDER_RANDOM_Y
    THEN [ret |-> -1, m |-> print_error(m, Msg("random_y", "", <<>>))]
    ELSE IF pf.line_order # ACES_LINEORDER_INCREASING_Y
            /\ pf.line_order # ACES_LINEORDER_DECREASING_Y
    THEN [ret |-> -1, m |-> print_error(m, Msg("unknown_line_order", "", <<>>))]
    ELSE [ret |-> 0, m |-> m]

\* the switch of compute_scanline_block_info
lines_per_block(compression) ==
    IF compression \in {ACES_COMPRESSION_NONE, ACES_COMPRESSION_RLE, ACES_COMPRESSION_ZIPS}
    THEN 1
    ELSE IF compression \in {ACES_COMPRESSION_ZIP, ACES_COMPRESSION_PXR24}
    THEN 16
    ELSE IF compression \in {ACES_COMPRESSION_PIZ, ACES_COMPRESSION_B44,
                             ACES_COMPRESSION_B44A}
    THEN 32
    ELSE -1

\* int arithmetic that leaves the range of int is undefined
INT_MAX == 2147483647
SubOverflows(a, b) == (b < 0 /\ a > INT_MAX + b) \/ (b > 0 /\ a < (-INT_MAX - 1) + b)
AddOverflows(a, b) == (b > 0 /\ a > INT_MAX - b) \/ (b < 0 /\ a < (-INT_MAX - 1) - b)

\* compute_scanline_block_info: *lines_per and *n_blocks; ub when the int
\* arithmetic overflows (n_blocks is then whatever the build computes)
compute_scanline_block_info(m, pf) ==
    LET lines_per == lines_per_block(pf.compression)
        m1 == IF lines_per = -1
              THEN print_error(m, Msg("unknown_compression_type", "", <<>>)) ELSE m
        ub1 == SubOverflows(pf.data_window.y_max, pf.data_window.y_min)
        n_lines == IF ub1 THEN 0 ELSE pf.data_window.y_max - pf.data_window.y_min
        ub2 == lines_per > 0 /\ ~ub1 /\ AddOverflows(n_lines, lines_per - 1)
    IN  [lines_per |-> lines_per,
         n_blocks |-> IF lines_per > 0 /\ ~ub1 /\ ~ub2
                      THEN CDiv(n_lines + lines_per - 1, lines_per) ELSE 0,
         ub |-> ub1 \/ ub2,
         m |-> m1]

(***************************************************************************)
(* The input: the bytes of the file, as the format lays them out.          *)
(*   u32 magic, u32 version,                                               *)
(*   { name NUL, type name NUL, i32 size, payload } ..., NUL               *)
(* A file of the family is the canonical header (the nine required         *)
(* attributes, in the order of their mask bits) changed in at most         *)
(* MaxAnomalies places: a required attribute left out or given another     *)
(* value, another attribute put in, the stream cut short.                  *)
(***************************************************************************)
STR_foo == <<102, 111, 111>>  \* "foo"
STR_mytype == <<109, 121, 116, 121, 112, 101>>  \* "mytype"
STR_owner == <<111, 119, 110, 101, 114>>  \* "owner"
STR_hello == <<104, 101, 108, 108, 111>>  \* "hello"
STR_x == <<120>>  \* "x"
STR_G == <<71>>  \* "G"
STR_R == <<82>>  \* "R"
STR_B == <<66>>  \* "B"
STR_A == <<65>>  \* "A"
STR_AB == <<65, 66>>  \* "AB"

Zeros(n) == [i \in 1 .. n |-> 0]

TypeName(type) == the_predefined_attr_typenames[type]

\* one channel of a channel-list payload
EncodeChannel(c) ==
    c.name \o <<0>> \o LE32(c.pixel_type) \o <<c.p_linear>> \o c.reserved
      \o LE32(c.x_sampling) \o LE32(c.y_sampling)

RECURSIVE EncodeChannels(_)
EncodeChannels(chans) ==
    IF chans = <<>> THEN <<>>
    ELSE EncodeChannel(Head(chans)) \o EncodeChannels(Tail(chans))

\* a channel-list payload: the channels, then the empty name
EncodeChlist(chans) == EncodeChannels(chans) \o <<0>>

EncodeBox2i(x_min, y_min, x_max, y_max) ==
    LE32(x_min) \o LE32(y_min) \o LE32(x_max) \o LE32(y_max)

EncodeTiledesc(x_size, y_size, level_type, round_mode) ==
    LE32(x_size) \o LE32(y_size) \o LE32(level_type) \o LE32(round_mode)

\* an attribute of the file: sec is the place of a required attribute in the
\* canonical header (0 for any other), canon says it has the canonical
\* value, cut >= 0 that the stream ends after cut bytes of it
FileAttr(name, type_name, size, payload, chans, sec, canon) ==
    [kind |-> "attr", name |-> name, type_name |-> type_name, size |-> size,
     payload |-> payload, chans |-> chans, sec |-> sec, canon |-> canon, cut |-> -1]

\* the empty name that ends the attribute list
FileEnd ==
    [kind |-> "end", name |-> <<>>, type_name |-> <<>>, size |-> 0,
     payload |-> <<>>, chans |-> <<>>, sec |-> 0, canon |-> TRUE, cut |-> -1]

\* the bytes of an attribute, to the end of the stream if it is cut
Chunk(a) ==
    LET all == IF a.kind = "end" THEN <<0>>
               ELSE a.name \o <<0>> \o a.type_name \o <<0>> \o LE32(a.size) \o a.payload
    IN  IF a.cut >= 0 THEN SubSeq(all, 1, a.cut) ELSE all

Chan(name, pixel_type) == ChEntry(name, pixel_type, 0, <<0, 0, 0>>, 1, 1)

ChanGRBA ==
    << Chan(STR_G, ACES_PIXEL_HALF), Chan(STR_R, ACES_PIXEL_HALF),
       Chan(STR_B, ACES_PIXEL_HALF), Chan(STR_A, ACES_PIXEL_HALF) >>

\* the channels the enumerated lists are made of: a name twice, with
\* different pixel types, a name that extends it, and another name
ChanPool ==
    { Chan(STR_A, ACES_PIXEL_HALF), Chan(STR_A, ACES_PIXEL_FLOAT),
      Chan(STR_AB, ACES_PIXEL_HALF), Chan(STR_B, ACES_PIXEL_UINT) }

RECURSIVE ChanLists(_)
ChanLists(n) ==
    IF n = 0 THEN {<<>>}
    ELSE ChanLists(n - 1)
           \cup {Append(l, c) : l \in {x \in ChanLists(n - 1) : Len(x) = n - 1}, c \in ChanPool}

ChlistAttr(name, chans, sec, canon) ==
    FileAttr(name, TypeName(ACES_ATTR_CHLIST), Len(EncodeChlist(chans)),
             EncodeChlist(chans), chans, sec, canon)

FixedAttr(name, type, payload, sec, canon) ==
    FileAttr(name, TypeName(type), Len(payload), payload, <<>>, sec, canon)

\* the canonical header, attribute by attribute
CanonicalAttrs ==
    { ChlistAttr(REQ_CHANNELS_STR, ChanGRBA, 1, TRUE),
      FixedAttr(REQ_COMP_STR, ACES_ATTR_COMPRESSION, <<ACES_COMPRESSION_NONE>>, 2, TRUE),
      FixedAttr(REQ_DATA_STR, ACES_ATTR_BOX2I, EncodeBox2i(0, 0, 9, 100), 3, TRUE),
      FixedAttr(REQ_DISP_STR, ACES_ATTR_BOX2I, EncodeBox2i(0, 0, 9, 100), 4, TRUE),
      FixedAttr(REQ_LO_STR, ACES_ATTR_LINEORDER, <<ACES_LINEORDER_INCREASING_Y>>, 5, TRUE),
      FixedAttr(REQ_PAR_STR, ACES_ATTR_FLOAT, <<0, 0, 128, 63>>, 6, TRUE),
      FixedAttr(REQ_SCR_WC_STR, ACES_ATTR_V2F, Zeros(8), 7, TRUE),
      FixedAttr(REQ_SCR_WW_STR, ACES_ATTR_FLOAT, <<0, 0, 128, 63>>, 8, TRUE),
      FixedAttr(REQ_TILES_STR, ACES_ATTR_TILEDESC, EncodeTiledesc(32, 32, 0, 0), 9, TRUE) }

\* a name of NAME_BUF characters, one more than a name may have
STR_long == [i \in 1 .. NAME_BUF |-> 110]

\* a channel list whose one channel has a name of NAME_BUF bytes, none of
\* them NUL, with the five fields right after them
LongNameChlist ==
    FileAttr(REQ_CHANNELS_STR, TypeName(ACES_ATTR_CHLIST), NAME_BUF + 17,
             STR_long \o Tail(EncodeChannel(Chan(<<>>, ACES_PIXEL_HALF))) \o <<0>>,
             <<Chan(STR_long, ACES_PIXEL_HALF)>>, 1, FALSE)

\* required attributes with another value
VariantAttrs ==
    { ChlistAttr(REQ_CHANNELS_STR, l, 1, FALSE) : l \in ChanLists(MaxChannels) }
    \cup { LongNameChlist }
    \cup { FixedAttr(REQ_COMP_STR, ACES_ATTR_COMPRESSION, <<c>>, 2, FALSE) : c \in 1 .. 8 }
    \cup { FixedAttr(REQ_DATA_STR, ACES_ATTR_BOX2I, EncodeBox2i(0, b[1], 9, b[2]), 3, FALSE) :
             b \in { <<0, 0>>, <<0, 20>>, <<20, 0>>, <<100, 0>>, <<-1, INT_MAX>> } }
    \cup { FixedAttr(REQ_LO_STR, ACES_ATTR_LINEORDER, <<o>>, 5, FALSE) : o \in 1 .. 3 }
    \cup { FixedAttr(REQ_TILES_STR, ACES_ATTR_TILEDESC, EncodeTiledesc(32, 32, 1, 0), 9, FALSE) }

\* attributes of every fixed-size type, the declared size one less than,
\* equal to and one more than the native size, with a payload of that size
FixedSweep ==
    { FileAttr(STR_x, TypeName(t), NativeSize(t) + d,
               Zeros(NativeSize(t) + d), <<>>, 0, FALSE) :
        t \in FixedTypes, d \in {-1, 0, 1} }

\* a required name once more, or with a type that is not the one of the
\* canonical header: the reader goes by the type name, add_attribute by the
\* attribute name
RequiredAgain ==
    { ChlistAttr(REQ_CHANNELS_STR, <<Chan(STR_A, ACES_PIXEL_HALF)>>, 0, FALSE),
      FileAttr(REQ_COMP_STR, TypeName(ACES_ATTR_STRING), 5, STR_hello, <<>>, 0, FALSE),
      FileAttr(REQ_DATA_STR, TypeName(ACES_ATTR_INT), 4, LE32(7), <<>>, 0, FALSE) }

STR_Float == <<70, 108, 111, 97, 116>>  \* "Float"
STR_floats == <<102, 108, 111, 97, 116, 115>>  \* "floats"
STR_v2 == <<118, 50>>  \* "v2"

\* attributes whose type name is near a name of the table and not in it:
\* another case, a longer name, a shorter one
NearTypeAttrs ==
    { FileAttr(STR_foo, STR_Float, 4, <<0, 0, 128, 63>>, <<>>, 0, FALSE),
      FileAttr(STR_foo, STR_floats, 0, <<>>, <<>>, 0, FALSE),
      FileAttr(STR_foo, STR_v2, 3, <<7, 8, 9>>, <<>>, 0, FALSE) }

\* preview attributes: width, height and 4 * width * height bytes, under a
\* declared size that is, or is not, the size of that payload
PreviewAttr(size, w, h, rgba) ==
    FileAttr(STR_foo, TypeName(ACES_ATTR_PREVIEW), size, LE32(w) \o LE32(h) \o rgba,
             <<>>, 0, FALSE)

PreviewSizes ==
    { FileAttr(STR_foo, TypeName(ACES_ATTR_PREVIEW), 4, LE32(0), <<>>, 0, FALSE),
      FileAttr(STR_foo, TypeName(ACES_ATTR_PREVIEW), 0, <<>>, <<>>, 0, FALSE),
      PreviewAttr(5, 1, 1, <<9, 9, 9, 9>>),
      PreviewAttr(8, 0, 0, <<>>),
      PreviewAttr(9, 0, 0, <<>>),
      PreviewAttr(16, 1, 1, <<9, 9, 9, 9>>) }

\* channel lists under a declared size that is not the size of the entries
\* and the terminator that follow
MisSizedChlists ==
    { FileAttr(STR_foo, TypeName(ACES_ATTR_CHLIST), size,
               EncodeChlist(<<Chan(STR_A, ACES_PIXEL_HALF)>>),
               <<Chan(STR_A, ACES_PIXEL_HALF)>>, 0, FALSE) : size \in {0, 4, 40} }

\* other attributes a file may hold
ExtraAttrs ==
    { FileAttr(STR_foo, STR_mytype, 2, <<1, 2>>, <<>>, 0, FALSE),
      FileAttr(STR_owner, TypeName(ACES_ATTR_STRING), 5, STR_hello, <<>>, 0, FALSE),
      FileAttr(STR_owner, TypeName(ACES_ATTR_STRING), 2, <<104, 0>>, <<>>, 0, FALSE),
      FileAttr(STR_owner, TypeName(ACES_ATTR_STRING), 0, <<>>, <<>>, 0, FALSE),
      FileAttr(STR_owner, TypeName(ACES_ATTR_STRING), -1, <<>>, <<>>, 0, FALSE),
      FileAttr(STR_foo, TypeName(ACES_ATTR_PREVIEW), 12, LE32(1) \o LE32(1) \o <<9, 9, 9, 9>>,
               <<>>, 0, FALSE),
      FileAttr(STR_foo, TypeName(ACES_ATTR_STRING_VECTOR), 0, <<>>, <<>>, 0, FALSE),
      FileAttr(STR_foo, <<>>, 0, <<>>, <<>>, 0, FALSE),
      FileAttr(STR_long, TypeName(ACES_ATTR_INT), 4, Zeros(4),
               <<>>, 0, FALSE),
      ChlistAttr(STR_foo, <<Chan(STR_A, ACES_PIXEL_HALF)>>, 0, FALSE) }
    \cup RequiredAgain
    \cup NearTypeAttrs
    \cup PreviewSizes
    \cup MisSizedChlists
    \cup FixedSweep

\* the attributes the stream may end in the middle of
CutAttrs ==
    { a \in ExtraAttrs \ FixedSweep : a.size > 0 }
    \cup { a \in CanonicalAttrs : a.sec \in {1, 2} }
    \cup { FileEnd }

\* the deviations that may come together with another one in a file of the
\* family: a compression, a data window, an empty channel list, a user
\* attribute, a string; every other deviation is the only one of its file
CommonAttrs ==
    { a \in VariantAttrs : a.name \in {REQ_COMP_STR, REQ_DATA_STR} }
    \cup { ChlistAttr(REQ_CHANNELS_STR, <<>>, 1, FALSE),
           FileAttr(STR_foo, STR_mytype, 2, <<1, 2>>, <<>>, 0, FALSE),
           FileAttr(STR_owner, TypeName(ACES_ATTR_STRING), 5, STR_hello, <<>>, 0, FALSE) }

\* what an attribute costs in deviations when the canonical header is at sidx
AttrCost(a, sidx) ==
    (IF a.kind = "end" THEN 0
     ELSE (IF a.sec = 0 THEN 0 ELSE a.sec - sidx)
          + (IF a.canon THEN 0
             ELSE IF [a EXCEPT !.cut = -1] \in CommonAttrs THEN 1 ELSE MaxAnomalies))
    + (IF a.cut >= 0 THEN 1 ELSE 0)

\* every attribute of the family, whole and cut short
WholeAttrs == CanonicalAttrs \cup VariantAttrs \cup ExtraAttrs \cup {FileEnd}
CutShortAttrs ==
    UNION { { [a EXCEPT !.cut = k] : k \in 0 .. Len(Chunk(a)) - 1 } : a \in CutAttrs }

\* the attributes that may come next in a file of the family; the attributes
\* that are not of the canonical header come before its section ExtraBefore + 1
NextAttrs(g) ==
    { a \in WholeAttrs \cup CutShortAttrs :
        /\ IF a.sec = 0 THEN a.kind = "end" \/ g.sidx <= ExtraBefore ELSE a.sec >= g.sidx
        /\ AttrCost(a, g.sidx) <= g.budget }

\* the generator after attribute a; seen: the name and the type name of the
\* attributes the file held so far
NextGen(g, a) ==
    [sidx |-> IF a.sec > 0 THEN a.sec + 1 ELSE g.sidx,
     budget |-> g.budget - AttrCost(a, g.sidx),
     seen |-> IF a.kind = "end" THEN g.seen
              ELSE Append(g.seen, [name |-> a.name, type_name |-> a.type_name])]

\* the first eight bytes of the file
MagicChunks ==
    { LE32(mg) \o LE32(v) : mg \in {EXR_MAGIC, EXR_MAGIC + 1, 0},
                            v \in {VERSION_SCANLINE, VERSION_TILED, 3, 258, 0} }
    \cup { SubSeq(LE32(EXR_MAGIC) \o LE32(VERSION_SCANLINE), 1, k) : k \in 0 .. 7 }
    \cup { SubSeq(LE32(0) \o LE32(VERSION_SCANLINE), 1, k) : k \in 4 .. 7 }

(***************************************************************************)
(* The state.                                                              *)
(***************************************************************************)
VARIABLES
    pc,             \* where the caller and the open operation stand
    op,             \* the public function called last
    user_data,      \* ACES_PRIVATE_FILE: the header
    io,             \* the private fields: fd, cur_file_pos, the callbacks, the block
    reqMask,        \* read_header's accumulated required mask
    magic_version,  \* the bytes read_header read into magic_version
    numMissing,     \* what report_missing_attributes returned (-1: not called)
    heap,           \* the heap blocks
    errors,         \* the messages handed to the error callback
    viol,           \* memory-safety violations committed
    delivered,      \* the bytes the read callback delivered
    eof,            \* a read came back short
    closed,         \* the descriptors handed to close()
    rval,           \* what the open operation returned (-1: nothing yet)
    ret,            \* what the last pixel read returned
    blk,            \* what compute_scanline_block_info computed last
    gen,            \* the file: the place in the canonical header, deviations left
    last,           \* the last read_attribute: what the file held, what it did
    calls,          \* calls made on the handle
    query           \* the typed getter called last: type tag and index

vars == <<pc, op, user_data, io, reqMask, magic_version, numMissing, heap, errors,
          viol, delivered, eof, closed, rval, ret, blk, gen, last, calls, query>>

\* the private fields as memset leaves them
ZeroIo == [fd |-> 0, cur_file_pos |-> 0, readfn |-> FALSE, writefn |-> FALSE, self |-> NULL]

NoRead == [called |-> FALSE, a |-> FileEnd, ret |-> 0, attrname |-> <<>>,
           type_name |-> <<>>, asize |-> 0, used |-> 0, o_payload |-> 0,
           attr |-> ZeroAttr, mask |-> 0, posdiff |-> 0]

\* no typed getter was called
NoQuery == [type |-> ACES_ATTR_UNKNOWN, index |-> -1]

NoBlk == [set |-> FALSE, lines_per |-> 0, n_blocks |-> 0, n_lines |-> 0, ub |-> FALSE]

Init ==
    /\ pc = "start"
    /\ op = "none"
    /\ user_data = ZeroHeader
    /\ io = ZeroIo
    /\ reqMask = 0
    /\ magic_version = <<>>
    /\ numMissing = -1
    /\ heap = <<>>
    /\ errors = <<>>
    /\ viol = {}
    /\ delivered = 0
    /\ eof = FALSE
    /\ closed = <<>>
    /\ rval = -1
    /\ ret = 0
    /\ blk = NoBlk
    /\ gen = [sidx |-> 1, budget |-> MaxAnomalies, seen |-> <<>>]
    /\ last = NoRead
    /\ calls = 0
    /\ query = NoQuery

\* the run of a function that reads the stream chunk s
Run(s) ==
    [s |-> s, o |-> 0, eof |-> eof, pos |-> io.cur_file_pos, errs |-> errors,
     heap |-> heap, viol |-> viol]

\* the state a run leaves
Leaves(m) ==
    /\ io' = [io EXCEPT !.cur_file_pos = m.pos]
    /\ errors' = m.errs
    /\ heap' = m.heap
    /\ viol' = m.viol
    /\ delivered' = delivered + m.o
    /\ eof' = m.eof

\* a failed open after its aces_close( rval ) returned c
OpenFailed(c) ==
    /\ pc' = "failed"
    /\ rval' = NULL
    /\ user_data' = c.pf
    /\ closed' = c.closed
    /\ Leaves(c.m)

\* the end of aces_start_read and aces_start_read_stream: read_header
\* returned r for header pf after run m
OpenReturns(r, m, pf) ==
    IF r < 0
    THEN OpenFailed(aces_close_live(m, pf, io.fd, io.self, closed))
    ELSE /\ pc' = "open"
         /\ rval' = io.self
         /\ user_data' = pf
         /\ closed' = closed
         /\ Leaves(m)

(***************************************************************************)
(* Opening.                                                                *)
(***************************************************************************)
\* aces_start_read( filename ), up to the call of read_header
aces_start_read(filename) ==
    /\ pc = "start"
    /\ op' = "aces_start_read"
    /\ UNCHANGED query
    /\ UNCHANGED <<reqMask, magic_version, numMissing, delivered, eof, ret, blk, gen,
                   last, calls>>
    /\ IF filename \in {"NULL", ""}
       THEN /\ errors' = Append(errors, Msg("empty_filename", "", <<>>))
            /\ pc' = "failed"
            /\ rval' = NULL
            /\ UNCHANGED <<user_data, io, heap, viol, closed>>
       ELSE LET m1 == malloc(Run(<<>>), "file", <<>>)
            IN  IF filename = "missing"
                THEN \* open() failed: fd is still what memset left
                     LET c == aces_close_live(print_error(m1, Msg("open_failed", "", <<>>)),
                                              ZeroHeader, ZeroIo.fd, LastPtr(m1), closed)
                     IN  /\ pc' = "failed"
                         /\ rval' = NULL
                         /\ user_data' = c.pf
                         /\ io' = ZeroIo
                         /\ heap' = c.m.heap
                         /\ errors' = c.m.errs
                         /\ viol' = c.m.viol
                         /\ closed' = c.closed
                ELSE /\ pc' = "read_header"
                     /\ rval' = rval
                     /\ user_data' = ZeroHeader
                     \* open() returned a descriptor: 3, the first free one
                     /\ io' = [ZeroIo EXCEPT !.fd = 3, !.readfn = TRUE, !.self = LastPtr(m1)]
                     /\ heap' = m1.heap
                     /\ UNCHANGED <<errors, viol, closed>>

\* aces_start_read_stream( file_info, source_name, readfn, seekfn, errfn ),
\* up to the call of read_header
aces_start_read_stream(readfn_given, seekfn_given) ==
    /\ pc = "start"
    /\ op' = "aces_start_read_stream"
    /\ UNCHANGED query
    /\ UNCHANGED <<reqMask, magic_version, numMissing, delivered, eof, ret, blk, gen,
                   last, calls, viol, closed, user_data>>
    /\ IF ~readfn_given \/ ~seekfn_given
       THEN /\ errors' = Append(errors, Msg("missing_function_pointer", "", <<>>))
            /\ pc' = "failed"
            /\ rval' = NULL
            /\ UNCHANGED <<io, heap>>
       ELSE LET m1 == malloc(Run(<<>>), "file", <<>>)
            IN  /\ pc' = "read_header"
                /\ rval' = rval
                /\ io' = [ZeroIo EXCEPT !.readfn = TRUE, !.self = LastPtr(m1)]
                /\ heap' = m1.heap
                /\ errors' = errors

\* faulty variant of magic_matches: any first word passes
magic_matches_any(mv) == TRUE

\* magic_version[0] is the magic number of the format
magic_matches(mv) == I32(mv, 1) = EXR_MAGIC

\* faulty variant of storage_mode_of: whatever is not 0x2 is taken as tiled
storage_mode_of_lenient(mv) ==
    IF I32(mv, 5) = VERSION_SCANLINE THEN ACES_STORAGE_SCANLINE ELSE ACES_STORAGE_TILED

\* the storage mode magic_version[1] stands for, -1 when it is not supported
storage_mode_of(mv) ==
    IF I32(mv, 5) = VERSION_SCANLINE THEN ACES_STORAGE_SCANLINE
    ELSE IF I32(mv, 5) = VERSION_TILED THEN ACES_STORAGE_TILED
    ELSE -1

\* read_header after the read of magic_version returned r
read_header_words(r) ==
    IF r.n # 8
    THEN OpenReturns(-1, print_error(r.m, Msg("magic_eof", "", <<>>)), user_data)
    ELSE IF ~magic_matches(r.data)
    THEN OpenReturns(-1, print_error([r.m EXCEPT !.pos = @ + 8],
                                     Msg("bad_magic", "", <<>>)), user_data)
    ELSE IF storage_mode_of(r.data) = -1
    THEN OpenReturns(-1, print_error([r.m EXCEPT !.pos = @ + 8],
                                     Msg("bad_version", "", <<>>)), user_data)
    ELSE /\ pc' = "attributes"
         /\ user_data' = [user_data EXCEPT !.storage_mode = storage_mode_of(r.data)]
         /\ UNCHANGED <<rval, closed>>
         /\ Leaves([r.m EXCEPT !.pos = @ + 8])

\* read_header, the magic and version words; on failure the open returns
read_header_magic ==
    /\ pc = "read_header"
    /\ UNCHANGED <<query, op, reqMask, numMissing, ret, blk, gen, last, calls>>
    /\ \E chunk \in MagicChunks :
         /\ magic_version' = readfn(Run(chunk), 8).data
         /\ read_header_words(readfn(Run(chunk), 8))

\* what is kept of one read_attribute call
Observed(a, ra, mask) ==
    [called |-> TRUE, a |-> a, ret |-> ra.ret, attrname |-> ra.attrname,
     type_name |-> ra.type_name, asize |-> ra.asize, used |-> ra.m.o,
     o_payload |-> ra.o_payload, attr |-> ra.attr, mask |-> mask,
     posdiff |-> ra.m.pos - io.cur_file_pos]

\* the loop body after add_attribute returned ad
read_header_added(a, ra, ad) ==
    /\ reqMask' = BitOr(reqMask, ad.mask)
    /\ last' = Observed(a, ra, ad.mask)
    /\ user_data' = ad.f
    /\ pc' = "attributes"
    /\ UNCHANGED <<rval, closed>>
    /\ Leaves(ad.m)

\* faulty variant of read_header_turn: a failed read_attribute ends the loop
\* as the empty name does
read_header_turn_lenient(a, ra) ==
    IF ra.ret = 1
    THEN read_header_added(a, ra, add_attribute(user_data, ra.m, ra.attrname, ra.attr))
    ELSE /\ reqMask' = reqMask
         /\ last' = Observed(a, ra, 0)
         /\ pc' = "validate"
         /\ UNCHANGED <<rval, closed, user_data>>
         /\ Leaves(ra.m)

\* faulty variant of read_header_turn: a failed read_attribute is passed over
\* and the loop goes on
read_header_turn_skipping(a, ra) ==
    IF ra.ret = 1
    THEN read_header_added(a, ra, add_attribute(user_data, ra.m, ra.attrname, ra.attr))
    ELSE /\ reqMask' = reqMask
         /\ last' = Observed(a, ra, 0)
         /\ pc' = IF ra.ret < 0 THEN "attributes" ELSE "validate"
         /\ UNCHANGED <<rval, closed, user_data>>
         /\ Leaves(ra.m)

\* the loop body after read_attribute returned ra: add_attribute when it
\* returned 1; a negative result ends the open, 0 ends the loop
read_header_turn(a, ra) ==
    IF ra.ret = 1
    THEN read_header_added(a, ra, add_attribute(user_data, ra.m, ra.attrname, ra.attr))
    ELSE /\ reqMask' = reqMask
         /\ last' = Observed(a, ra, 0)
         /\ IF ra.ret < 0
            THEN OpenReturns(ra.ret, ra.m, user_data)
            ELSE /\ pc' = "validate"
                 /\ UNCHANGED <<rval, closed, user_data>>
                 /\ Leaves(ra.m)

\* read_header, one turn of the do-while loop on the next attribute of the file
read_header_attribute ==
    /\ pc = "attributes"
    /\ UNCHANGED <<query, op, magic_version, numMissing, ret, blk, calls>>
    /\ \E a \in NextAttrs(gen) :
         /\ gen' = NextGen(gen, a)
         /\ read_header_turn(a, read_attribute(Run(Chunk(a))))

\* the end of read_header after report_missing_attributes returned rm
read_header_returns(rm) ==
    /\ numMissing' = rm.numMissing
    /\ OpenReturns(IF rm.numMissing # 0 THEN -1 ELSE 0, rm.m, user_data)

\* read_header after the loop ended on the empty name: the required mask is
\* checked and the open returns
read_header_validate ==
    /\ pc = "validate"
    /\ UNCHANGED <<query, op, reqMask, magic_version, ret, blk, gen, last, calls>>
    /\ read_header_returns(report_missing_attributes(user_data, Run(<<>>), reqMask))

(***************************************************************************)
(* Reading pixels.                                                         *)
(***************************************************************************)
\* read_offset_table( f, num_off ): the table, or NULL with a message
read_offset_table(m, num_off) ==
    IF MallocFails(num_off)
    THEN [ret |-> NULL,
          m |-> print_error(m, Msg("offset_table_alloc", "", <<num_off>>))]
    ELSE LET m1 == malloc(m, "offset_table", <<>>)
             r == readfn(m1, 4 * num_off)
             m2 == [r.m EXCEPT !.pos = @ + r.n]
         IN  IF r.n # 4 * num_off
             THEN [ret |-> NULL,
                   m |-> free(print_error(m2, Msg("offset_table_eof", "", <<>>)),
                              LastPtr(m1))]
             ELSE [ret |-> LastPtr(m1), m |-> m2]

\* the values an int computation that overflowed may have given
UndefinedInts == {-INT_MAX - 1, 0, 1}

\* what the stream may hold where a table of nb offsets is expected
OffsetTables(nb) ==
    IF eof \/ nb <= 0 THEN {<<>>}
    ELSE {Zeros(4 * nb), Zeros(4 * nb - 1)}

\* read_scanlines_interleaved after the argument check left run m
read_scanlines_interleaved(m) ==
    LET info == compute_scanline_block_info(m, user_data)
    IN  \E nb \in (IF info.ub THEN UndefinedInts ELSE {info.n_blocks}) :
        \E chunk \in OffsetTables(nb) :
          LET rt == read_offset_table([info.m EXCEPT !.s = chunk], nb)
          IN  /\ blk' = [set |-> TRUE, lines_per |-> info.lines_per, n_blocks |-> nb,
                         n_lines |-> IF info.ub THEN 0
                                     ELSE user_data.data_window.y_max
                                          - user_data.data_window.y_min,
                         ub |-> info.ub]
              /\ IF rt.ret = NULL
                 THEN ret' = -1 /\ Leaves(rt.m)
                 ELSE ret' = 0 /\ Leaves(free(rt.m, rt.ret))

\* read_tiles_interleaved, read_scanlines_plane, read_tiles_plane
not_yet_supported(m, what) ==
    /\ ret' = -1
    /\ blk' = blk
    /\ Leaves(print_error(m, Msg(what, "", <<>>)))

\* faulty variant of aces_get_image: a read that fails forgets the data window
aces_get_image_forgetful(dst) ==
    /\ pc = "open"
    /\ calls < MaxCalls
    /\ op' = "aces_get_image"
    /\ UNCHANGED query
    /\ calls' = calls + 1
    /\ UNCHANGED <<pc, reqMask, magic_version, numMissing, closed, rval, gen, last>>
    /\ LET rc == read_check_argument(Run(<<>>), user_data, io, dst)
       IN  IF rc.ret # 0
           THEN ret' = -1 /\ blk' = blk /\ Leaves(rc.m)
           ELSE IF user_data.storage_mode = ACES_STORAGE_SCANLINE
           THEN read_scanlines_interleaved(rc.m)
           ELSE not_yet_supported(rc.m, "tiles_not_supported")
    /\ user_data' = IF ret' = 0 THEN user_data
                    ELSE [user_data EXCEPT !.data_window = ZeroHeader.data_window]

\* aces_get_image( f, dst, line_stride ) on an open handle
aces_get_image(dst) ==
    /\ pc = "open"
    /\ calls < MaxCalls
    /\ op' = "aces_get_image"
    /\ UNCHANGED query
    /\ calls' = calls + 1
    /\ UNCHANGED <<pc, user_data, reqMask, magic_version, numMissing, closed, rval, gen,
                   last>>
    /\ LET rc == read_check_argument(Run(<<>>), user_data, io, dst)
       IN  IF rc.ret # 0
           THEN ret' = -1 /\ blk' = blk /\ Leaves(rc.m)
           ELSE IF user_data.storage_mode = ACES_STORAGE_SCANLINE
           THEN read_scanlines_interleaved(rc.m)
           ELSE not_yet_supported(rc.m, "tiles_not_supported")

\* aces_get_image_rgba( f, dst, line_stride ) on an open handle
aces_get_image_rgba(dst) ==
    /\ pc = "open"
    /\ calls < MaxCalls
    /\ op' = "aces_get_image_rgba"
    /\ UNCHANGED query
    /\ calls' = calls + 1
    /\ UNCHANGED <<pc, user_data, reqMask, magic_version, numMissing, closed, rval, gen,
                   last>>
    /\ LET rc == read_check_argument(Run(<<>>), user_data, io, dst)
       IN  IF rc.ret # 0
           THEN ret' = -1 /\ blk' = blk /\ Leaves(rc.m)
           ELSE IF user_data.storage_mode = ACES_STORAGE_SCANLINE
           THEN read_scanlines_interleaved(rc.m)
           ELSE not_yet_supported(rc.m, "tiles_not_supported")

\* aces_get_plane( f, p, dst, line_stride ) on an open handle
aces_get_plane(dst) ==
    /\ pc = "open"
    /\ calls < MaxCalls
    /\ op' = "aces_get_plane"
    /\ UNCHANGED query
    /\ calls' = calls + 1
    /\ UNCHANGED <<pc, user_data, reqMask, magic_version, numMissing, closed, rval, gen,
                   last>>
    /\ LET rc == read_check_argument(Run(<<>>), user_data, io, dst)
       IN  IF rc.ret # 0
           THEN ret' = -1 /\ blk' = blk /\ Leaves(rc.m)
           ELSE IF user_data.storage_mode = ACES_STORAGE_SCANLINE
           THEN not_yet_supported(rc.m, "nyi")
           ELSE not_yet_supported(rc.m, "tiles_not_supported")

(***************************************************************************)
(* Sizes.                                                                  *)
(***************************************************************************)
\* aces_get_data_size( datatype ): the bytes of one sample, 0 with a message
aces_get_data_size(m, datatype) ==
    IF datatype \in {ACES_PIXEL_UINT, ACES_PIXEL_FLOAT} THEN [ret |-> 4, m |-> m]
    ELSE IF datatype = ACES_PIXEL_HALF THEN [ret |-> 2, m |-> m]
    ELSE [ret |-> 0, m |-> print_error(m, Msg("unknown_data_type", "", <<>>))]

\* a * b leaves the range of int
MulOverflows(a, b) ==
    LET aa == IF a < 0 THEN -a ELSE a
        bb == IF b < 0 THEN -b ELSE b
    IN  a # 0 /\ b # 0 /\ (a < -INT_MAX \/ b < -INT_MAX \/ aa > INT_MAX \div bb)

\* x_max - x_min + 1 of a window side, -1 standing for an overflow
window_side(lo, hi) ==
    IF SubOverflows(hi, lo) THEN -1
    ELSE IF AddOverflows(hi - lo, 1) THEN -1
    ELSE hi - lo + 1

\* aces_get_image_bytes after aces_get_data_size returned ds: w * h * c * d
image_bytes_product(w, h, c, ds, deref_ok) ==
    LET ub == \/ ~deref_ok \/ w < 0 \/ h < 0
              \/ MulOverflows(w, h)
              \/ (~MulOverflows(w, h) /\ MulOverflows(w * h, c))
    IN  \E v \in (IF ub THEN UndefinedInts ELSE {w * h * c * ds.ret}) :
          /\ ret' = v
          /\ Leaves(IF deref_ok THEN ds.m
                    ELSE [ds.m EXCEPT !.viol = @ \cup {"null_deref"}])

\* aces_get_image_bytes( f ) with the pointer the open returned
aces_get_image_bytes ==
    /\ pc \in {"open", "failed"}
    /\ calls < MaxCalls
    /\ op' = "aces_get_image_bytes"
    /\ UNCHANGED query
    /\ calls' = calls + 1
    /\ UNCHANGED <<pc, user_data, reqMask, magic_version, numMissing, closed, rval, gen,
                   last, blk>>
    /\ IF rval = NULL
       THEN ret' = 0 /\ Leaves(print_error(Run(<<>>), Msg("null_file_pointer", "", <<>>)))
       ELSE image_bytes_product(
              window_side(user_data.display_window.x_min, user_data.display_window.x_max),
              window_side(user_data.display_window.y_min, user_data.display_window.y_max),
              user_data.channels.num_channels,
              aces_get_data_size(
                print_error(Run(<<>>), Msg("pixel_type_loop_nyi", "", <<>>)),
                IF user_data.channels.entries \in 1 .. Len(heap)
                THEN heap[user_data.channels.entries].data[1].pixel_type ELSE 0),
              user_data.channels.entries \in 1 .. Len(heap))

(***************************************************************************)
(* The typed attribute getters (aces.h); their definitions are not part of *)
(* the sources at hand, they are taken from their description.             *)
(***************************************************************************)
\* the types that have a getter aces_get_nth_attribute_<type>
GetterTypes ==
    {ACES_ATTR_BOX2I, ACES_ATTR_BOX2F, ACES_ATTR_CHROMATICITIES, ACES_ATTR_KEYCODE,
     ACES_ATTR_M33F, ACES_ATTR_M44F, ACES_ATTR_PREVIEW, ACES_ATTR_RATIONAL,
     ACES_ATTR_STRING, ACES_ATTR_STRING_VECTOR, ACES_ATTR_TILEDESC, ACES_ATTR_TIMECODE,
     ACES_ATTR_V2I, ACES_ATTR_V2F, ACES_ATTR_V3I, ACES_ATTR_V3F, ACES_ATTR_USER}

\* the getter of `type` on the attribute ua: a pointer to its value (the
\* value lives in the node of the list) when its type tag is `type`, else
\* NULL and a type-mismatch message
get_nth_attribute(m, ua, type) ==
    IF ua.data.type = type THEN [ret |-> ua.node, m |-> m]
    ELSE [ret |-> NULL, m |-> print_error(m, Msg("type_mismatch", "", ua.name))]

\* aces_get_nth_attribute_<type>( f, index ) on an open handle, index within
\* the attribute list
aces_get_nth_attribute(type, index) ==
    /\ pc = "open"
    /\ calls < MaxCalls
    /\ index < Len(user_data.user_attributes)
    /\ op' = "aces_get_nth_attribute"
    /\ query' = [type |-> type, index |-> index]
    /\ calls' = calls + 1
    /\ UNCHANGED <<pc, user_data, reqMask, magic_version, numMissing, closed, rval, gen,
                   last, blk>>
    /\ ret' = get_nth_attribute(Run(<<>>), user_data.user_attributes[index + 1], type).ret
    /\ Leaves(get_nth_attribute(Run(<<>>), user_data.user_attributes[index + 1], type).m)

(***************************************************************************)
(* Writing.                                                                *)
(***************************************************************************)
\* aces_start_write( width, height, channels, compression, filename )
aces_start_write(width, height, channels, filename) ==
    /\ pc = "start"
    /\ op' = "aces_start_write"
    /\ UNCHANGED query
    /\ pc' = "failed"
    /\ rval' = NULL
    /\ UNCHANGED <<user_data, io, reqMask, magic_version, numMissing, heap, viol,
                   delivered, eof, closed, ret, blk, gen, last, calls>>
    /\ errors' = IF filename \in {"NULL", ""}
                 THEN Append(errors, Msg("empty_filename", "", <<>>))
                 ELSE IF width = 0 \/ height = 0 \/ channels = 0
                 THEN Append(errors, Msg("zero_sized_image", "", <<>>))
                 ELSE errors

(***************************************************************************)
(* Closing.                                                                *)
(***************************************************************************)
\* aces_close( f ) with the pointer the open returned: NULL after a failed
\* open, the handle while it is open, and the same, now dangling, pointer
\* after it was closed.  Through the dangling pointer the fields are read
\* from released memory: they are what the first close left, or what a
\* later owner of the memory wrote (zeroes).
aces_close ==
    /\ pc \in {"failed", "open", "closed"}
    /\ Len(closed) < MaxCloses
    /\ op' = "aces_close"
    /\ UNCHANGED query
    /\ UNCHANGED <<reqMask, magic_version, numMissing, rval, ret, blk, gen, last, calls>>
    /\ IF rval = NULL
       THEN UNCHANGED <<pc, user_data, io, heap, errors, viol, delivered, eof, closed>>
       ELSE IF pc = "open"
       THEN LET c == aces_close_live(Run(<<>>), user_data, io.fd, rval, closed)
            IN  /\ pc' = "closed"
                /\ user_data' = c.pf
                /\ closed' = c.closed
                /\ Leaves(c.m)
       ELSE \E reused \in BOOLEAN :
              LET m0 == [Run(<<>>) EXCEPT !.viol = @ \cup {"use_after_free"}]
                  c == aces_close_live(m0,
                                       IF reused THEN ZeroHeader ELSE user_data,
                                       IF reused THEN ZeroIo.fd ELSE io.fd,
                                       rval, closed)
              IN  /\ pc' = "closed"
                  /\ user_data' = user_data
                  /\ closed' = c.closed
                  /\ Leaves(c.m)

Next ==
    \/ \E filename \in {"NULL", "", "missing", "image.exr"} : aces_start_read(filename)
    \/ \E readfn_given \in BOOLEAN, seekfn_given \in BOOLEAN :
         aces_start_read_stream(readfn_given, seekfn_given)
    \/ read_header_magic
    \/ read_header_attribute
    \/ read_header_validate
    \/ \E dst \in {NULL, 1} : aces_get_image(dst)
    \/ \E dst \in {NULL, 1} : aces_get_image_rgba(dst)
    \/ \E dst \in {NULL, 1} : aces_get_plane(dst)
    \/ aces_get_image_bytes
    \/ \E width \in {0, 1}, height \in {0, 1}, channels \in {0, 1},
          filename \in {"", "image.exr"} :
         aces_start_write(width, height, channels, filename)
    \/ \E type \in GetterTypes, index \in 0 .. MaxIndex : aces_get_nth_attribute(type, index)
    \/ aces_close

Spec == Init /\ [][Next]_vars

(***************************************************************************)
(* Properties.                                                             *)
(***************************************************************************)
\* the messages of kind e handed to the error callback, in order
Errors(e) == SelectSeq(errors, LAMBDA x : x.e = e)

\* no attribute was read, none was added to the header
NoAttribute ==
    /\ ~last.called
    /\ reqMask = 0
    /\ user_data = ZeroHeader

\* the stream held the two words and the first is not the magic number
BadMagic == Len(magic_version) = 8 /\ I32(magic_version, 1) # 20000630

\* the stream ended inside the two words and its first word is not the magic number
BadMagicShort ==
    Len(magic_version) \in 4 .. 7 /\ I32(magic_version \o <<0, 0, 0, 0>>, 1) # 20000630

\* C1: a stream whose first 32-bit word is not 20000630 fails the open
\* (NULL is returned) on the one read of the 8 magic and version bytes:
\* these 8 bytes are all that is consumed (what the stream holds of them
\* when it ends before the eighth), no attribute byte is read and no
\* attribute is added to the header.
C1_BadMagicFails ==
    /\ BadMagic =>
         /\ pc = "failed" /\ rval = NULL
         /\ delivered = 8 /\ io.cur_file_pos = 8
         /\ NoAttribute
         /\ Len(Errors("bad_magic")) = 1
    /\ BadMagicShort =>
         /\ pc = "failed" /\ rval = NULL
         /\ delivered = Len(magic_version)
         /\ NoAttribute

C1_Witness ==
    /\ BadMagic
    /\ pc = "failed"
    /\ op = "aces_start_read_stream"
    /\ delivered = 8

\* the stream held the two words and the first is the magic number
GoodMagic == Len(magic_version) = 8 /\ I32(magic_version, 1) = 20000630

\* the version word
Version == I32(magic_version, 5)

\* C2: with a correct magic word the version word is accepted only if it is
\* 0x2 or 0x202: 0x2 sets the storage mode to scanline and 0x202 to tiled,
\* and the parse goes on to the attributes; every other value fails the open
\* before any attribute is read.
C2_VersionWord ==
    GoodMagic =>
      /\ Version = 2 =>
           /\ user_data.storage_mode = ACES_STORAGE_SCANLINE
           /\ Errors("bad_version") = <<>>
           /\ pc = "attributes" \/ last.called
      /\ Version = 514 =>
           /\ user_data.storage_mode = ACES_STORAGE_TILED
           /\ Errors("bad_version") = <<>>
           /\ pc = "attributes" \/ last.called
      /\ Version \notin {2, 514} =>
           /\ pc = "failed" /\ rval = NULL
           /\ Len(Errors("bad_version")) = 1
           /\ delivered = 8
           /\ NoAttribute

C2_Witness ==
    /\ GoodMagic
    /\ Version = 3
    /\ pc = "failed"
    /\ op = "aces_start_read"

\* the bits of the eight mandatory fields; the bit of the tiles field is 256
MandatoryBits == {1, 2, 4, 8, 16, 32, 64, 128}

\* C3: the open returns a handle only if the required mask accumulated by
\* the attribute loop holds the eight mandatory bits and, for a tiled file,
\* the tiles bit; for a scanline file the mask never holds the tiles bit, so
\* that at validation it is the full mask minus the tiles bit.
C3_HandleOnlyWithFullMask ==
    /\ rval > NULL =>
         /\ \A b \in MandatoryBits : BitAnd(reqMask, b) = b
         /\ user_data.storage_mode = ACES_STORAGE_TILED => BitAnd(reqMask, 256) = 256
         /\ user_data.storage_mode = ACES_STORAGE_SCANLINE => reqMask = 511 - 256
    /\ user_data.storage_mode = ACES_STORAGE_SCANLINE /\ pc # "start" /\ GoodMagic =>
         BitAnd(reqMask, 256) = 0

C3_Witness ==
    /\ pc = "open"
    /\ rval > NULL
    /\ user_data.storage_mode = ACES_STORAGE_SCANLINE
    /\ reqMask = 255
    /\ \E i \in 1 .. Len(user_data.user_attributes) :
         user_data.user_attributes[i].name = REQ_TILES_STR

\* the required fields of a file of the given storage mode: bit and name
RequiredFields(storage_mode) ==
    { <<1, REQ_CHANNELS_STR>>, <<2, REQ_COMP_STR>>, <<4, REQ_DATA_STR>>,
      <<8, REQ_DISP_STR>>, <<16, REQ_LO_STR>>, <<32, REQ_PAR_STR>>,
      <<64, REQ_SCR_WC_STR>>, <<128, REQ_SCR_WW_STR>> }
    \cup (IF storage_mode = ACES_STORAGE_TILED THEN { <<256, REQ_TILES_STR>> } ELSE {})

\* the required fields whose bit is not in the mask
MissingFields ==
    { fld \in RequiredFields(user_data.storage_mode) : BitAnd(reqMask, fld[1]) = 0 }

\* C4: when the attribute list ended without a hard error,
\* report_missing_attributes emits exactly one "Missing required attribute"
\* message for each required field whose bit is unset (tiles only for a
\* tiled file), naming that field, returns the number of these fields, and
\* read_header fails iff that number is greater than 0.
C4_MissingReported ==
    numMissing >= 0 =>
      /\ numMissing = Cardinality(MissingFields)
      /\ Len(Errors("missing_required")) = numMissing
      /\ \A fld \in MissingFields :
           Cardinality({ i \in 1 .. Len(Errors("missing_required")) :
                           Errors("missing_required")[i].a = fld[2] }) = 1
      /\ numMissing > 0 <=> rval = NULL
      /\ numMissing = 0 <=> rval > NULL

C4_Witness ==
    /\ numMissing = 2
    /\ user_data.storage_mode = ACES_STORAGE_TILED
    /\ BitAnd(reqMask, 256) = 0
    /\ BitAnd(reqMask, 1) = 1
    /\ rval = NULL

\* the last attribute read was a channel list and the read succeeded
ChlistRead ==
    last.called /\ last.ret = 1 /\ last.attr.type = ACES_ATTR_CHLIST

\* the entries array of the channel list read last
ChlistEntries ==
    IF last.attr.ptr = NULL THEN <<>> ELSE heap[last.attr.ptr].data

\* the entries of sequence s that carry name n, in the order of s
Named(s, n) == SelectSeq(s, LAMBDA e : e.name = n)

Names(s) == [i \in 1 .. Len(s) |-> s[i].name]

\* every channel name of the payload fits the name buffer with its terminator
ChlistNamesFit ==
    \A i \in 1 .. Len(last.a.chans) : Len(last.a.chans[i].name) < NAME_BUF

\* C5: after a successful attr_read_chlist the entries array is a
\* permutation of the entries of the payload, in file order last.a.chans:
\* ascending by name in strcmp order, entries of equal name in their file
\* order, and num_channels is the number of entries read; the file order
\* G, R, B, A gives A, B, G, R.
C5_ChlistStableSorted ==
    ChlistRead /\ ChlistNamesFit =>
      /\ last.attr.n = Len(last.a.chans)
      /\ Len(ChlistEntries) = last.attr.n
      /\ \A i \in 1 .. Len(ChlistEntries), j \in 1 .. Len(ChlistEntries) :
           i < j => strcmp(ChlistEntries[i].name, ChlistEntries[j].name) <= 0
      /\ \A n \in { last.a.chans[i].name : i \in 1 .. Len(last.a.chans) }
                  \cup { ChlistEntries[i].name : i \in 1 .. Len(ChlistEntries) } :
           Named(ChlistEntries, n) = Named(last.a.chans, n)
      /\ Names(last.a.chans) = <<STR_G, STR_R, STR_B, STR_A>> =>
           Names(ChlistEntries) = <<STR_A, STR_B, STR_G, STR_R>>

\* two channels of one name and different pixel types were read, the one
\* that sorts last in between the two in the file
C5_Witness ==
    /\ ChlistRead
    /\ Len(last.a.chans) = 3
    /\ last.a.chans[1].name = STR_A /\ last.a.chans[3].name = STR_A
    /\ last.a.chans[2].name = STR_B
    /\ last.a.chans[1].pixel_type # last.a.chans[3].pixel_type
    /\ pc = "attributes"

\* the last attribute read was of type string
StringRead == last.called /\ last.attr.type = ACES_ATTR_STRING

\* the payload bytes the stream held for the last attribute
PayloadHeld == Len(Chunk(last.a)) - last.o_payload

FixedSizeOf ==
    [t \in FixedTypes |->
       CASE t \in {ACES_ATTR_BOX2I, ACES_ATTR_BOX2F, ACES_ATTR_TILEDESC} -> 16
         [] t = ACES_ATTR_CHROMATICITIES -> 32
         [] t = ACES_ATTR_KEYCODE -> 28
         [] t = ACES_ATTR_M33F -> 36
         [] t = ACES_ATTR_M44F -> 64
         [] t \in {ACES_ATTR_RATIONAL, ACES_ATTR_TIMECODE, ACES_ATTR_V2I, ACES_ATTR_V2F,
                   ACES_ATTR_DOUBLE} -> 8
         [] t \in {ACES_ATTR_V3I, ACES_ATTR_V3F} -> 12
         [] t \in {ACES_ATTR_COMPRESSION, ACES_ATTR_LINEORDER, ACES_ATTR_ENVMAP} -> 1
         [] t \in {ACES_ATTR_INT, ACES_ATTR_FLOAT} -> 4]

\* the last attribute read was of a fixed-size type
FixedRead == last.called /\ last.attr.type \in FixedTypes

\* C7: for an attribute of a fixed-size type, a declared size that is not
\* the native size makes read_attribute fail without a read of the payload
\* (nothing is delivered and cur_file_pos stays where the size word ended)
\* and the open fails; a declared size equal to the native size reads
\* exactly that many bytes (what the stream holds of them when it ends
\* before, and the read then fails).
C7_FixedSizeChecked ==
    FixedRead =>
      /\ last.asize # FixedSizeOf[last.attr.type] =>
           /\ last.ret = -1
           /\ last.used = last.o_payload
           /\ last.posdiff = last.o_payload
           /\ pc = "failed" /\ rval = NULL
           /\ Len(Errors("size_mismatch")) = 1
      /\ last.asize = FixedSizeOf[last.attr.type] =>
           /\ last.used - last.o_payload = Min(last.asize, PayloadHeld)
           /\ last.posdiff = last.used
           /\ last.ret = 1 <=> PayloadHeld >= last.asize
           /\ last.ret = 1 => last.attr.raw = last.a.payload
           /\ Errors("size_mismatch") = <<>>

C7_Witness ==
    /\ FixedRead
    /\ last.attr.type = ACES_ATTR_BOX2I
    /\ last.asize = 15
    /\ PayloadHeld = 15
    /\ last.ret = -1
    /\ pc = "failed"

\* the least integer not below a / b, for b > 0
CeilDiv(a, b) == -((-a) \div b)

\* the lines of a block for the compressions a pixel read accepts
LinesPerBlockOf(compression) ==
    CASE compression \in {ACES_COMPRESSION_NONE, ACES_COMPRESSION_RLE,
                          ACES_COMPRESSION_ZIPS} -> 1
      [] compression = ACES_COMPRESSION_ZIP -> 16
      [] compression = ACES_COMPRESSION_PIZ -> 32
      [] OTHER -> 0

\* C8: compute_scanline_block_info yields 1 line per block for compression
\* none, rle and zips, 16 for zip and 32 for piz, and the block count
\* ceil((y_max - y_min) / lines_per_block) of the data window; zip with
\* y_max - y_min = 100 gives 7 blocks.
C8_BlockCountIsCeiling ==
    blk.set =>
      /\ blk.lines_per = LinesPerBlockOf(user_data.compression)
      /\ ~blk.ub
      /\ blk.n_blocks = CeilDiv(blk.n_lines, blk.lines_per)

\* zip and a data window with y_max - y_min = 100: 7 blocks
C8_Witness ==
    /\ blk.set
    /\ user_data.compression = ACES_COMPRESSION_ZIP
    /\ user_data.data_window.y_max - user_data.data_window.y_min = 100
    /\ blk.lines_per = 16
    /\ blk.n_blocks = 7

\* C8 for the data windows with y_min <= y_max whose height is an int: there
\* the count is the ceiling
C8_OrderedWindow ==
    blk.set /\ ~blk.ub /\ blk.n_lines >= 0 =>
      /\ blk.lines_per = LinesPerBlockOf(user_data.compression)
      /\ blk.n_blocks = CeilDiv(blk.n_lines, blk.lines_per)

\* C9: aces_close on a NULL handle, and a second aces_close on a handle
\* that was closed, is a no-op: nothing is freed again, no descriptor is
\* closed again, no released memory is touched.
C9_CloseAgainIsNoOp ==
    [][ (pc \in {"failed", "closed"} /\ op' = "aces_close")
          => (heap' = heap /\ viol' = viol /\ closed' = closed) ]_vars

\* a handle was closed twice
C9_Witness ==
    /\ pc = "closed"
    /\ op = "aces_close"
    /\ Len(closed) = 2
    /\ "double_free" \in viol

\* C9 for the NULL handle: aces_close( NULL ) changes nothing
C9_CloseNullIsNoOp ==
    [][ (pc = "failed" /\ op' = "aces_close")
          => (heap' = heap /\ viol' = viol /\ closed' = closed) ]_vars

\* the blocks of the heap that were not released
LiveBlocks == { p \in 1 .. Len(heap) : heap[p].live }

\* C10: when the header parse fails, the open returns NULL and every block
\* allocated during the open has been released before it returns, those of
\* the attribute being read when the error occurred included.
C10_FailedOpenReleasesAll ==
    pc = "failed" => rval = NULL /\ LiveBlocks = {}

\* the open failed in the payload of a user attribute: the copy of its
\* type name is still allocated
C10_Witness ==
    /\ pc = "failed"
    /\ rval = NULL
    /\ last.called /\ last.attr.type = ACES_ATTR_USER /\ last.ret = -1
    /\ \E p \in LiveBlocks : heap[p].kind = "type_name"

\* C10 but for the type name of a user attribute whose payload read failed
C10_OnlyTypeNameLeft ==
    pc = "failed" =>
      /\ rval = NULL
      /\ \A p \in LiveBlocks :
           /\ heap[p].kind = "type_name"
           /\ last.attr.type = ACES_ATTR_USER /\ last.ret = -1
           /\ last.attr.type_name = p


\* the handle of a successful open was closed, once
ClosedOnce == pc = "closed" /\ "use_after_free" \notin viol

\* the blocks of one kind that were allocated
BlocksOf(kind) == { p \in 1 .. Len(heap) : heap[p].kind = kind }

\* C11: after a successful open followed by aces_close every block
\* allocated while parsing has been released, exactly once, whatever the
\* accepted attribute sequence was: a required name that appears twice and
\* a required name whose value is of a type with a heap payload included.
C11_CloseReleasesAll ==
    ClosedOnce => (LiveBlocks = {} /\ viol = {})

\* a file with two channels attributes was opened and closed: the entries
\* array of the first is still allocated
C11_Witness ==
    /\ ClosedOnce
    /\ Cardinality(BlocksOf("entries")) = 2
    /\ \E p \in LiveBlocks : heap[p].kind = "entries" /\ user_data.channels.entries # p

\* C11 but for what add_attribute overwrote or never kept: each block left
\* after the close is a payload the header does not point to, and nothing
\* is released twice
C11_OnlyUnreferencedLeft ==
    ClosedOnce =>
      /\ \A p \in LiveBlocks :
           /\ heap[p].kind \in {"entries", "string"}
           /\ user_data.channels.entries # p
      /\ "double_free" \notin viol
      /\ "wild_free" \notin viol

\* the handle owns a descriptor: aces_start_read's open() returned one (3,
\* the first free one) and stored it in fd
OwnsDescriptor == io.fd = 3

\* C12: aces_close closes a descriptor only when the handle owns one that
\* aces_start_read opened; the close of a stream handle and the close
\* inside aces_start_read when the path cannot be opened hand no
\* descriptor to close().
C12_ClosesOnlyOwned ==
    \A i \in DOMAIN closed : OwnsDescriptor /\ closed[i] = io.fd

\* a handle of aces_start_read_stream was closed: close( 0 ) was called
C12_Witness ==
    /\ ClosedOnce
    /\ ~OwnsDescriptor
    /\ closed = <<0>>

\* aces_start_read could not open the path: its aces_close called close( 0 )
C12_WitnessOpenFailed ==
    /\ pc = "failed"
    /\ Len(Errors("open_failed")) = 1
    /\ closed = <<0>>

\* C12 for the handle that owns a descriptor: it is closed, once, by the
\* close of the handle or by the close of a failed open
C12_OwnedClosedOnce ==
    OwnsDescriptor =>
      /\ pc \in {"read_header", "attributes", "validate", "open"} => closed = <<>>
      /\ (pc = "failed" \/ ClosedOnce) => closed = <<3>>

\* a read_attribute that succeeds leaves nothing of its attribute unread
ChunkConsumed ==
    (last.called /\ last.ret = 1) => last.used = Len(Chunk(last.a))

\* an open operation has returned and nothing was called since
OpenReturned ==
    /\ pc \in {"open", "failed"}
    /\ op \in {"aces_start_read", "aces_start_read_stream", "aces_start_write"}

\* the step is a call of one of the pixel read functions
PixelReadStep ==
    /\ calls' = calls + 1
    /\ op' \in {"aces_get_image", "aces_get_image_rgba", "aces_get_plane"}

\* the step is a call of aces_get_image_bytes
ImageBytesStep == calls' = calls + 1 /\ op' = "aces_get_image_bytes"

\* the step handed a message to the error callback
MessageDelivered == Len(errors') > Len(errors)

\* C13: the error callback and the failure status go together, for every
\* public operation and every parse step: an open returns NULL exactly when
\* a message was delivered during it, read_attribute fails exactly when it
\* delivered a message, the check of the required attributes fails exactly
\* when it did, and a pixel read or size query returns its failure status
\* (-1, 0) exactly when it did.
C13_MessageIffFailure ==
    /\ [](OpenReturned => ((rval = NULL) <=> (errors # <<>>)))
    /\ [][ /\ pc = "attributes" => ((last'.ret < 0) <=> MessageDelivered)
           /\ pc = "validate" => ((numMissing' # 0) <=> MessageDelivered)
           /\ PixelReadStep => ((ret' = -1) <=> MessageDelivered)
           /\ ImageBytesStep => ((ret' = 0) <=> MessageDelivered) ]_vars

\* aces_start_write returned NULL for a named image of size 1 x 1 x 1 and
\* delivered no message
C13_Witness ==
    /\ pc = "failed"
    /\ rval = NULL
    /\ op = "aces_start_write"
    /\ errors = <<>>

\* a message was delivered and the operation succeeded: an open that
\* returned a handle, a size query that returned a size
C13_WitnessMessageOnly ==
    /\ pc = "open"
    /\ errors # <<>>
    /\ \/ op = "aces_start_read" /\ Len(Errors("name_too_long")) = 1
       \/ op = "aces_get_image_bytes" /\ ret > 0

\* C13 for reading: an open for reading that returns NULL has delivered a
\* message, a failed read_attribute or check of the required attributes has
\* delivered one, and a pixel read returns -1 exactly when it delivered one
C13_ReadFailuresReported ==
    /\ []((OpenReturned /\ op # "aces_start_write" /\ rval = NULL) => errors # <<>>)
    /\ [][ /\ (pc = "attributes" /\ last'.ret < 0) => MessageDelivered
           /\ pc = "validate" => ((numMissing' # 0) <=> MessageDelivered)
           /\ PixelReadStep => ((ret' = -1) <=> MessageDelivered) ]_vars

\* the function called last was one of the two interleaved image reads
ImageRead == op \in {"aces_get_image", "aces_get_image_rgba"}

\* the compressed modes
CompressedModes ==
    {ACES_COMPRESSION_RLE, ACES_COMPRESSION_ZIPS, ACES_COMPRESSION_ZIP,
     ACES_COMPRESSION_PIZ, ACES_COMPRESSION_PXR24, ACES_COMPRESSION_B44,
     ACES_COMPRESSION_B44A}

\* C14: aces_get_image and aces_get_image_rgba return the failure status on
\* every handle whose compression is rle, zips, zip, piz, pxr24, b44 or
\* b44a: no read of a compressed image reports success.
C14_CompressedReadsFail ==
    (ImageRead /\ user_data.compression \in CompressedModes) => ret = -1

\* aces_get_image returned 0 on a zip-compressed scanline file
C14_Witness ==
    /\ op = "aces_get_image"
    /\ user_data.compression = ACES_COMPRESSION_ZIP
    /\ ret = 0
    /\ blk.set /\ blk.n_blocks = 7

\* C14 for the modes read_check_argument refuses and for tiled files
C14_RefusedModesFail ==
    (ImageRead /\ (\/ user_data.compression \in {ACES_COMPRESSION_PXR24, ACES_COMPRESSION_B44,
                                                 ACES_COMPRESSION_B44A}
                   \/ user_data.storage_mode = ACES_STORAGE_TILED)) => ret = -1

\* the names add_attribute keeps in the header for a file of this storage mode
RequiredNames(storage_mode) ==
    {REQ_CHANNELS_STR, REQ_COMP_STR, REQ_DATA_STR, REQ_DISP_STR, REQ_LO_STR,
     REQ_PAR_STR, REQ_SCR_WC_STR, REQ_SCR_WW_STR}
    \cup (IF storage_mode = ACES_STORAGE_TILED THEN {REQ_TILES_STR} ELSE {})

\* the attributes of the file that are not kept in the header, in file order
FileUserAttrs ==
    SelectSeq(gen.seen, LAMBDA s : s.name \notin RequiredNames(user_data.storage_mode))

\* the type name is the name of the type tag: the table's name for a known
\* type, a name the table does not hold for USER
IsNameOf(type_name, type) ==
    IF type = ACES_ATTR_USER
    THEN /\ type_name # <<>>
         /\ \A i \in 1 .. Len(the_predefined_attr_typenames) :
              the_predefined_attr_typenames[i] # type_name
    ELSE the_predefined_attr_typenames[type] = type_name

\* a typed getter was called on the open handle
GetterCalled == op = "aces_get_nth_attribute" /\ pc = "open"

\* the attribute the getter was called on
Queried == user_data.user_attributes[query.index + 1]

C15_WitnessMatch ==
    /\ GetterCalled
    /\ query.type = ACES_ATTR_V2F
    /\ Queried.data.type = ACES_ATTR_V2F
    /\ ret # NULL

\* the nine well-known names
WellKnownNames == RequiredNames(ACES_STORAGE_TILED)

\* every attribute handed to read_attribute so far was read
AllRead == pc \in {"attributes", "validate", "open"}

\* the attributes of the file whose name is not among `names`, in file order
FileAttrsNotIn(names) == SelectSeq(gen.seen, LAMBDA s : s.name \notin names)

\* the user-attribute list holds the attributes fa, in that order: the
\* names, and the type tags their type names stand for
UserListIs(fa) ==
    /\ Len(user_data.user_attributes) = Len(fa)
    /\ \A i \in 1 .. Len(fa) :
         /\ user_data.user_attributes[i].name = fa[i].name
         /\ IsNameOf(fa[i].type_name, user_data.user_attributes[i].data.type)

\* C16 as stated: an attribute whose name is not one of the nine well-known
\* names sets no bit of the required mask, and after any accepted attribute
\* sequence the user-attribute list holds exactly the attributes of such
\* names, in file order.
C16_UserListIsOtherNames ==
    /\ (last.called /\ last.ret = 1 /\ last.attrname \notin WellKnownNames) => last.mask = 0
    /\ AllRead => UserListIs(FileAttrsNotIn(WellKnownNames))

\* C16 amended: the user-attribute list holds, in file order, exactly the
\* attributes whose name is not one of the nine well-known names and, in a
\* scanline file, the attributes named tiles; none of them sets a bit of
\* the required mask.
C16_UserListIsNotKept ==
    /\ (last.called /\ last.ret = 1
          /\ last.attrname \notin RequiredNames(user_data.storage_mode)) => last.mask = 0
    /\ AllRead => UserListIs(FileAttrsNotIn(RequiredNames(user_data.storage_mode)))

\* a scanline file with two attributes of other names and a tiles
\* attribute was opened: the list holds the three, in file order
C16_Witness ==
    /\ pc = "open"
    /\ user_data.storage_mode = ACES_STORAGE_SCANLINE
    /\ Len(user_data.user_attributes) = 3
    /\ user_data.user_attributes[1].name = STR_foo
    /\ user_data.user_attributes[2].name = STR_owner
    /\ user_data.user_attributes[3].name = REQ_TILES_STR

\* the step is a read_attribute that succeeded on an attribute named tiles
TilesAdded ==
    /\ pc = "attributes"
    /\ last'.called /\ last'.ret = 1
    /\ last'.attrname = REQ_TILES_STR

\* the tile descriptor the payload of the attribute read in the step holds
TilesPayload ==
    [x_size |-> I32(last'.a.payload, 1), y_size |-> I32(last'.a.payload, 5),
     level_type |-> I32(last'.a.payload, 9), round_mode |-> I32(last'.a.payload, 13)]

\* C17: add_attribute stores an attribute named tiles in the header's tile
\* descriptor and returns the tiles bit only when the storage mode is
\* tiled; in a scanline file the tile descriptor and the required mask stay
\* as they are and the attribute is appended to the user-attribute list.
C17_TilesOnlyWhenTiled ==
    [][ TilesAdded =>
          IF user_data.storage_mode = ACES_STORAGE_TILED
          THEN /\ last'.mask = REQ_TILES_MASK
               /\ BitAnd(reqMask', REQ_TILES_MASK) = REQ_TILES_MASK
               /\ user_data'.tile_info = TilesPayload
               /\ user_data'.user_attributes = user_data.user_attributes
          ELSE /\ last'.mask = 0
               /\ reqMask' = reqMask
               /\ user_data'.tile_info = user_data.tile_info
               /\ Len(user_data'.user_attributes) = Len(user_data.user_attributes) + 1
               /\ SubSeq(user_data'.user_attributes, 1, Len(user_data.user_attributes))
                    = user_data.user_attributes
               /\ user_data'.user_attributes[Len(user_data'.user_attributes)].name
                    = REQ_TILES_STR
               /\ user_data'.user_attributes[Len(user_data'.user_attributes)].data
                    = last'.attr ]_vars

\* a tiles attribute was read in a scanline file: it is the last of the
\* user-attribute list, the tile descriptor is as it was, the bit is not set
C17_Witness ==
    /\ pc = "attributes"
    /\ user_data.storage_mode = ACES_STORAGE_SCANLINE
    /\ last.called /\ last.ret = 1 /\ last.attrname = REQ_TILES_STR
    /\ last.mask = 0
    /\ BitAnd(reqMask, REQ_TILES_MASK) = 0
    /\ user_data.tile_info = ZeroHeader.tile_info
    /\ user_data.user_attributes # <<>>
    /\ user_data.user_attributes[Len(user_data.user_attributes)].name = REQ_TILES_STR

\* a tiles attribute was read in a tiled file: its value is in the header
C17_WitnessTiled ==
    /\ pc = "attributes"
    /\ user_data.storage_mode = ACES_STORAGE_TILED
    /\ last.called /\ last.ret = 1 /\ last.attrname = REQ_TILES_STR
    /\ last.mask = REQ_TILES_MASK
    /\ user_data.tile_info.x_size = 32
    /\ user_data.user_attributes = <<>>

\* the last read_attribute read the two names and the size word: it got as
\* far as the switch on the type
SwitchReached ==
    /\ last.called
    /\ last.attrname # <<>>
    /\ last.o_payload = Len(last.attrname) + Len(last.type_name) + 6
    /\ last.attrname = last.a.name /\ last.type_name = last.a.type_name

\* the type name read last is not empty and no name of the table
UnlistedTypeName ==
    /\ last.type_name # <<>>
    /\ \A i \in 1 .. Len(the_predefined_attr_typenames) :
         the_predefined_attr_typenames[i] # last.type_name

\* C18: for a non-empty type name that is not exactly (case included) a
\* name of the table, read_attribute gives the attribute the tag USER, keeps
\* a copy of the type name on it and reads the declared number of bytes as
\* opaque user data; it does not fail as an unknown type.
C18_UnlistedTypeIsUser ==
    (SwitchReached /\ UnlistedTypeName) =>
      /\ last.attr.type = ACES_ATTR_USER
      /\ last.attr.type_name # NULL
      /\ heap[last.attr.type_name].kind = "type_name"
      /\ heap[last.attr.type_name].data = last.type_name
      /\ Errors("unknown_type") = <<>>
      /\ (last.asize >= 0 /\ PayloadHeld >= last.asize) =>
           /\ last.ret = 1
           /\ last.used - last.o_payload = last.asize
           /\ last.attr.n = last.asize
           /\ last.attr.ptr # NULL
           /\ heap[last.attr.ptr].kind = "userdata"
           /\ heap[last.attr.ptr].data = last.a.payload

\* an attribute of type name Float, which differs from the table's float in
\* case only, was read as four bytes of user data
C18_Witness ==
    /\ SwitchReached
    /\ last.type_name = STR_Float
    /\ last.ret = 1
    /\ last.attr.type = ACES_ATTR_USER
    /\ heap[last.attr.ptr].data = <<0, 0, 128, 63>>

\* the type name read last is the name at place TableIndex of the table
ListedTypeName ==
    \E i \in 1 .. Len(the_predefined_attr_typenames) :
        the_predefined_attr_typenames[i] = last.type_name

TableIndex ==
    CHOOSE i \in 1 .. Len(the_predefined_attr_typenames) :
        the_predefined_attr_typenames[i] = last.type_name

\* the file holds the whole attribute and its declared size is one the type
\* may have: the native size of a fixed-size type, no negative size
WellFormedAttr ==
    /\ last.a.cut = -1
    /\ last.a.size >= 0
    /\ last.a.size = Len(last.a.payload)
    /\ TableIndex \in FixedTypes => last.a.size = NativeSize(TableIndex)

\* the last read_attribute read a well-formed attribute of a known type
KnownTypeRead == SwitchReached /\ ListedTypeName /\ WellFormedAttr

\* C19: each of the 23 names of the table resolves to the type tag of the
\* same name and read_attribute has a reader for it: a well-formed
\* attribute of a known type is read successfully and is never rejected as
\* an unknown type.
C19_KnownTypesDispatched ==
    KnownTypeRead =>
      /\ last.attr.type = TableIndex
      /\ last.ret = 1
      /\ Errors("unknown_type") = <<>>

\* an attribute of type stringvector was rejected as of unknown type
C19_Witness ==
    /\ KnownTypeRead
    /\ TableIndex = ACES_ATTR_STRING_VECTOR
    /\ last.attr.type = ACES_ATTR_STRING_VECTOR
    /\ last.ret = -1
    /\ Len(Errors("unknown_type")) = 1
    /\ pc = "failed"

\* C19 for the 22 names but stringvector
C19_OthersDispatched ==
    (KnownTypeRead /\ TableIndex # ACES_ATTR_STRING_VECTOR) =>
      /\ last.attr.type = TableIndex
      /\ last.ret = 1
      /\ Errors("unknown_type") = <<>>

\* a well-formed attribute of the last name of the table, v3f, was read
C19_WitnessLastName ==
    /\ KnownTypeRead /\ last.ret = 1
    /\ TableIndex = ACES_ATTR_V3F

\* read_string reported a name of kind t (attribute, type, channel) as too long
NameTooLong(t) ==
    \E i \in 1 .. Len(errors) : errors[i].e = "name_too_long" /\ errors[i].t = t

\* the entries arrays that hold a channel whose name is the first 31
\* characters of the over-long name
TruncatedEntries ==
    { p \in BlocksOf("entries") :
        \E i \in 1 .. Len(heap[p].data) :
            heap[p].data[i].name = SubSeq(STR_long, 1, NAME_BUF - 1) }

\* C20: a channel name of 32 bytes with no NUL among them is a NameTooLong
\* failure: attr_read_chlist returns failure, no channel of a truncated
\* name is put in a list, and the header parse is aborted (the open fails).
C20_LongChannelNameFails ==
    NameTooLong("channel") =>
      /\ (last.called /\ last.a = LongNameChlist) => last.ret = -1
      /\ TruncatedEntries = {}
      /\ pc = "failed" /\ rval = NULL

\* the file with the over-long channel name was opened: the header's
\* channel list holds one channel, named by the first 31 characters
C20_Witness ==
    /\ NameTooLong("channel")
    /\ pc = "open"
    /\ user_data.channels.num_channels = 1
    /\ user_data.channels.entries \in TruncatedEntries

\* C20 for the name of an attribute: too long a name fails read_attribute
\* and the open
C20_LongAttributeNameFails ==
    NameTooLong("attribute") =>
      /\ pc = "failed" /\ rval = NULL
      /\ last.ret = -1
\* the step is one turn of read_header's attribute loop
AttributeTurn == pc = "attributes" /\ last'.called

\* the bytes the turn's read_attribute found in the stream
TurnBytes == Chunk(last'.a)

\* the first byte the turn read is the NUL of an empty name
EmptyNameRead == TurnBytes # <<>> /\ Head(TurnBytes) = 0

\* the stream ends before the terminator of the attribute name, or the name
\* has no terminator within NAME_BUF bytes
NameUnreadable ==
    \A i \in 1 .. Min(Len(TurnBytes), NAME_BUF) : TurnBytes[i] # 0

\* C21: an empty attribute name ends the attribute loop without an error:
\* read_attribute returns 0 having consumed the one NUL byte, no type name
\* and no size is read, nothing is added, and read_header goes on to the
\* validation; a name that cannot be read gives -1 instead and the open
\* fails.
C21_EmptyNameEndsLoop ==
    [][AttributeTurn =>
         /\ EmptyNameRead =>
              /\ last'.ret = 0
              /\ last'.used = 1
              /\ delivered' = delivered + 1
              /\ io'.cur_file_pos = io.cur_file_pos + 1
              /\ last'.type_name = <<>>
              /\ errors' = errors
              /\ user_data' = user_data /\ reqMask' = reqMask /\ heap' = heap
              /\ pc' = "validate"
         /\ ~EmptyNameRead => last'.ret # 0 /\ pc' # "validate"
         /\ NameUnreadable =>
              /\ last'.ret = -1
              /\ Len(errors') > Len(errors)
              /\ pc' = "failed" /\ rval' = NULL]_vars

\* the loop ended on the empty name after the attributes of a whole header
C21_Witness ==
    /\ pc = "validate"
    /\ last.called /\ last.a = FileEnd
    /\ last.ret = 0 /\ last.used = 1
    /\ Len(gen.seen) >= 8

\* an attribute name of NAME_BUF bytes failed the open
C21_WitnessTooLong ==
    /\ pc = "failed"
    /\ last.called /\ last.ret = -1
    /\ Len(Errors("name_too_long")) = 1
    /\ errors[Len(errors)].t = "attribute"

PreviewRead == last.called /\ last.attr.type = ACES_ATTR_PREVIEW

\* the payload bytes the last read_attribute was delivered
PayloadRead == last.used - last.o_payload

\* C22: attr_read_preview rejects a preview attribute up front, before any
\* payload byte is read, whenever the declared size is 8 or less.
C22_PreviewNeedsMoreThan8 ==
    (PreviewRead /\ last.asize <= 8) => (last.ret = -1 /\ PayloadRead = 0)

\* a preview of declared size 8 (0 x 0 pixels) was read and accepted
C22_Witness ==
    /\ PreviewRead
    /\ last.asize = 8
    /\ last.ret = 1
    /\ PayloadRead = 8

\* a preview of declared size 5 was accepted: 12 payload bytes were read
C22_WitnessSize5 ==
    /\ PreviewRead
    /\ last.asize = 5
    /\ last.ret = 1
    /\ PayloadRead = 12

\* C22 with the limit the code has: a declared size of 4 or less is
\* rejected before any payload byte is read, with a message
C22_RejectsUpTo4 ==
    (PreviewRead /\ last.asize <= 4) =>
      /\ last.ret = -1
      /\ PayloadRead = 0
      /\ Len(Errors("preview_size")) = 1

\* the header fields but for the user-attribute list
HeaderFields(pf) == [pf EXCEPT !.user_attributes = <<>>]

\* the number of blocks of one kind in a heap
CountOf(h, kind) == Cardinality({ p \in 1 .. Len(h) : h[p].kind = kind })

\* C23: once a read_attribute of read_header returns a hard error the parse
\* is over: read_header returns failure at once and the open NULL, the
\* failing attribute is added neither to the header nor to the
\* user-attribute list, the required attributes are not validated, and no
\* byte is read from the stream afterwards.
C23_HardErrorAborts ==
    [][/\ (AttributeTurn /\ last'.ret < 0) =>
            /\ pc' = "failed" /\ rval' = NULL
            /\ delivered' = delivered + last'.used
            /\ HeaderFields(user_data') = HeaderFields(user_data)
            /\ reqMask' = reqMask
            /\ user_data'.user_attributes = <<>>
            /\ CountOf(heap', "user_attr") = CountOf(heap, "user_attr")
            /\ numMissing' = -1
            /\ \A i \in Len(errors) + 1 .. Len(errors') :
                  errors'[i].e # "missing_required"
       /\ (pc = "failed" /\ last.called /\ last.ret < 0) =>
            /\ pc' \in {"failed", "closed"}
            /\ delivered' = delivered
            /\ numMissing' = -1
            /\ user_data' = user_data /\ reqMask' = reqMask]_vars

\* the third attribute of a file failed, after two were added: the open
\* returned NULL without validation
C23_Witness ==
    /\ pc = "failed"
    /\ rval = NULL
    /\ last.called /\ last.ret = -1
    /\ Len(gen.seen) = 3
    /\ reqMask = 3
    /\ numMissing = -1

\* the header of the handle is one read_check_argument refuses: a
\* compression that is not available or not known, tiles of more than one
\* level, a line order that is random or not known
RefusedHeader ==
    \/ user_data.compression \in {ACES_COMPRESSION_PXR24, ACES_COMPRESSION_B44,
                                  ACES_COMPRESSION_B44A}
    \/ user_data.compression \notin ACES_COMPRESSION_NONE .. ACES_COMPRESSION_B44A
    \/ user_data.line_order = ACES_LINEORDER_RANDOM_Y
    \/ user_data.line_order \notin ACES_LINEORDER_INCREASING_Y .. ACES_LINEORDER_RANDOM_Y
    \/ /\ user_data.storage_mode = ACES_STORAGE_TILED
       /\ user_data.tile_info.level_type # ACES_TILE_ONE_LEVEL

\* the step read nothing from the stream
NothingRead == delivered' = delivered /\ io' = io /\ eof' = eof

C24_WitnessLevels ==
    /\ pc = "open"
    /\ user_data.storage_mode = ACES_STORAGE_TILED
    /\ user_data.tile_info.level_type # ACES_TILE_ONE_LEVEL
    /\ Len(Errors("multi_level_tiles")) = 1
    /\ ret = -1

\* a plane of the canonical scanline file was asked for and not read
C24_WitnessPlane ==
    /\ pc = "open"
    /\ op = "aces_get_plane"
    /\ ~RefusedHeader
    /\ user_data.storage_mode = ACES_STORAGE_SCANLINE
    /\ Len(Errors("nyi")) = 1
    /\ ret = -1

\* a read of a single-level tiled file failed
C24_WitnessTiled ==
    /\ pc = "open"
    /\ ImageRead
    /\ ~RefusedHeader
    /\ user_data.storage_mode = ACES_STORAGE_TILED
    /\ Len(Errors("tiles_not_supported")) = 1
    /\ ret = -1

\* C25: a call of aces_get_image, aces_get_image_rgba or aces_get_plane that
\* returns failure leaves every header field of the handle as it was
\* (storage mode, channel list, compression, the windows, line order, pixel
\* aspect ratio, screen window, tile descriptor, user-attribute list) and
\* every block the header points to, so that the header queries made
\* afterwards give what they gave before; the handle stays open.
C25_FailedReadKeepsHeader ==
    [][(PixelReadStep /\ ret' # 0) =>
         /\ user_data' = user_data
         /\ SubSeq(heap', 1, Len(heap)) = heap
         /\ pc' = "open" /\ rval' = rval
         /\ io'.fd = io.fd /\ io'.self = io.self
         /\ closed' = closed]_vars

\* the offset table of a file with two user attributes could not be read:
\* the read failed, the header is the one the open left
C25_Witness ==
    /\ pc = "open"
    /\ ImageRead
    /\ ret = -1
    /\ Len(Errors("offset_table_eof")) = 1
    /\ Len(user_data.user_attributes) = 2
    /\ user_data.channels.num_channels = 4
    /\ user_data.channels.entries \in LiveBlocks

\* C26: after every read step of header parsing and of offset-table
\* reading, whether it succeeded or failed, cur_file_pos is the number of
\* bytes the read callback has delivered since the handle was created.
C26_PositionIsDelivered == io.cur_file_pos = delivered

\* the stream ended inside an attribute name: read_string counted the byte
\* it was not given
C26_Witness ==
    /\ pc = "failed"
    /\ Len(Errors("name_eof")) = 1
    /\ delivered > 8
    /\ io.cur_file_pos = delivered + 1

\* the stream ended inside the magic and version words: the bytes
\* delivered were not counted
C26_WitnessMagic ==
    /\ pc = "failed"
    /\ Len(Errors("magic_eof")) = 1
    /\ delivered = 7
    /\ io.cur_file_pos = 0

\* C26 while every read is served in full, and for the handle of a
\* successful open whatever its pixel reads were given
C26_PositionWhileServed ==
    /\ ~eof => io.cur_file_pos = delivered
    /\ rval > NULL => io.cur_file_pos = delivered

\* the offset table of an open handle came short and the position followed
C26_WitnessOffsetTable ==
    /\ pc = "open"
    /\ Len(Errors("offset_table_eof")) = 1
    /\ eof
    /\ io.cur_file_pos = delivered

\* the type the header field of a required name holds
ExpectedType(name) ==
    CASE name = REQ_CHANNELS_STR -> ACES_ATTR_CHLIST
      [] name = REQ_COMP_STR     -> ACES_ATTR_COMPRESSION
      [] name = REQ_DATA_STR     -> ACES_ATTR_BOX2I
      [] name = REQ_DISP_STR     -> ACES_ATTR_BOX2I
      [] name = REQ_LO_STR       -> ACES_ATTR_LINEORDER
      [] name = REQ_PAR_STR      -> ACES_ATTR_FLOAT
      [] name = REQ_SCR_WC_STR   -> ACES_ATTR_V2F
      [] name = REQ_SCR_WW_STR   -> ACES_ATTR_FLOAT
      [] name = REQ_TILES_STR    -> ACES_ATTR_TILEDESC

\* the mask bit of a required name
MaskOf(name) ==
    LET bits == RequiredBits(ACES_STORAGE_TILED)
    IN  bits[CHOOSE i \in DOMAIN bits : bits[i][2] = name][1]

\* the turn read an attribute with a required name and handed it to
\* add_attribute
RequiredNameAdded == AttributeTurn /\ last'.ret = 1 /\ last'.attrname \in WellKnownNames

\* C27: add_attribute stores a value into a required header field only
\* when the attribute's type in the file is the type of that field; an
\* attribute with a required name and another type neither sets the
\* required bit nor overwrites the header field.
C27_RequiredFieldsTyped ==
    [][(RequiredNameAdded /\ last'.attr.type # ExpectedType(last'.attrname)) =>
         /\ last'.mask = 0
         /\ reqMask' = reqMask
         /\ HeaderFields(user_data') = HeaderFields(user_data)]_vars

\* an attribute named compression of type string, five characters long,
\* was added: the compression field is 5, the low byte of the string's
\* length, and the compression bit is set
C27_Witness ==
    /\ pc = "attributes"
    /\ last.called /\ last.ret = 1
    /\ last.attrname = REQ_COMP_STR
    /\ last.attr.type = ACES_ATTR_STRING
    /\ last.mask = REQ_COMP_MASK
    /\ BitAnd(reqMask, REQ_COMP_MASK) # 0
    /\ user_data.compression = ACES_COMPRESSION_PXR24

\* C27 for the attributes of the expected type: the bit of the name is set
\* (for tiles, in a tiled file)
C27_TypedFieldsStored ==
    [][(RequiredNameAdded /\ last'.attr.type = ExpectedType(last'.attrname)) =>
         /\ last'.mask = IF last'.attrname = REQ_TILES_STR
                            /\ user_data.storage_mode # ACES_STORAGE_TILED
                         THEN 0 ELSE MaskOf(last'.attrname)
         /\ reqMask' = BitOr(reqMask, last'.mask)]_vars

\* a read_attribute returned 1
AttrRead == last.called /\ last.ret = 1

\* C28: for every attribute read_attribute reads successfully the payload
\* bytes consumed after the size word are as many as the declared size,
\* for every type, preview and chlist included, so that the next attribute
\* name starts at the byte after the declared payload.
C28_PayloadIsDeclaredSize == AttrRead => PayloadRead = last.asize

\* a preview of 1 x 1 pixels under a declared size of 16 was read: 12
\* payload bytes were consumed
C28_Witness ==
    /\ AttrRead
    /\ last.attr.type = ACES_ATTR_PREVIEW
    /\ last.asize = 16
    /\ PayloadRead = 12

\* a channel list under a declared size that is not the size of its
\* entries was read
C28_WitnessChlist ==
    /\ AttrRead
    /\ last.attr.type = ACES_ATTR_CHLIST
    /\ last.attr.n = 1
    /\ PayloadRead = 19
    /\ last.asize = 4

\* C28 for the types whose reader looks at the declared size: the
\* fixed-size types, string and the types that are not in the table
C28_SizedTypesConsumeDeclared ==
    (AttrRead /\ last.attr.type \notin {ACES_ATTR_PREVIEW, ACES_ATTR_CHLIST}) =>
      PayloadRead = last.asize

\* C29: every handle a successful open returns has a channel list of at
\* least one entry: num_channels >= 1 and an entries array, so that
\* aces_get_image_bytes and aces_read_image have a first entry to read.
C29_ChannelsNotEmpty ==
    pc = "open" =>
      /\ user_data.channels.num_channels >= 1
      /\ user_data.channels.entries # NULL

\* a file whose channels attribute holds no channel was opened, and
\* aces_get_image_bytes read the pixel type of the first entry through the
\* NULL entries pointer
C29_Witness ==
    /\ pc = "open"
    /\ rval # NULL
    /\ user_data.channels.num_channels = 0
    /\ user_data.channels.entries = NULL
    /\ op = "aces_get_image_bytes"
    /\ "null_deref" \in viol

\* C29 but for the empty list: the entries array of an open handle holds
\* num_channels entries, and is NULL when there is none
C29_EntriesMatchCount ==
    pc = "open" =>
      IF user_data.channels.num_channels = 0
      THEN user_data.channels.entries = NULL
      ELSE /\ user_data.channels.entries \in LiveBlocks
           /\ heap[user_data.channels.entries].kind = "entries"
           /\ Len(heap[user_data.channels.entries].data) = user_data.channels.num_channels

\* the channel-list loop on the payload the last read_attribute found,
\* turn by turn: every turn that asks for another one was delivered at
\* least one byte, and none of its reads came short
RECURSIVE ChlistTurnsProgress(_)
ChlistTurnProgresses(t, n) ==
    /\ n.ret = 2 => (n.m.o > t.m.o /\ ~n.m.eof)
    /\ ChlistTurnsProgress(n)

ChlistTurnsProgress(t) ==
    IF t.ret # 2 THEN TRUE
    ELSE ChlistTurnProgresses(t, chlist_turn(read_string(t.m, "channel"), t.list, t.num))

\* the run of attr_read_chlist on the payload of the last attribute
PayloadRun ==
    [s |-> SubSeq(Chunk(last.a), last.o_payload + 1, Len(Chunk(last.a))), o |-> 0,
     eof |-> FALSE, pos |-> 0, errs |-> <<>>, heap |-> <<>>, viol |-> {}]

ChlistReadStarted ==
    /\ last.called
    /\ last.attr.type = ACES_ATTR_CHLIST

\* C30: read_header terminates, with success or with failure, on every
\* finite stream: every turn of the attribute loop and every turn of the
\* channel-list loop is either delivered at least one byte or ends its
\* loop, and no turn follows a read that came short, so the loops take no
\* more turns than the stream has bytes.
C30_ReadHeaderTerminates ==
    /\ [][AttributeTurn =>
            /\ delivered' > delivered \/ pc' # "attributes"
            /\ eof' => pc' = "failed"
            /\ pc' \in {"attributes", "validate", "failed"}]_vars
    /\ [][pc = "validate" => pc' \in {"open", "failed"}]_vars
    /\ [](ChlistReadStarted =>
            ChlistTurnsProgress([ret |-> 2, list |-> <<>>, num |-> 0, m |-> PayloadRun]))
    /\ [](pc = "attributes" => (~eof /\ Len(gen.seen) <= delivered - 8))

\* the stream ended after the first channel of the channels attribute: the
\* next turn of the channel-list loop was given no byte, took the failed
\* name for a name and ended on the pixel type it could not read
C30_Witness ==
    /\ pc = "failed"
    /\ ChlistReadStarted
    /\ last.ret = -1
    /\ last.used - last.o_payload = 18
    /\ Len(errors) = 2
    /\ errors[1].e = "name_eof" /\ errors[1].t = "channel"
    /\ errors[2].e = "attr_eof"

\* the attribute loop ended on a stream that holds nothing after the
\* version word
C30_WitnessEmpty ==
    /\ pc = "failed"
    /\ last.called /\ last.ret = -1
    /\ delivered = 8
    /\ Len(Errors("name_eof")) = 1

=============================================================================
